---- MODULE Spec2Model ----
(***************************************************************************)
(* QTube: a browser extension that overlays an AI question box on a        *)
(* YouTube page.  The module models four parts of the repository:          *)
(*   - the Player Bridge, the script QTube_content.js injects into the     *)
(*     page (readiness gate, command queue, polling loop);                 *)
(*   - the AI Gateway's parsing of the answer text (callGeminiApi);        *)
(*   - the Overlay Controller (showOverlay, hideOverlay, updateOverlay,    *)
(*     processManualTranscript);                                           *)
(*   - the Session Coordinator of QTube_popup.js (askQuestion,             *)
(*     ensureContentScriptLoaded, sendMessageWithRetry).                   *)
(* Text is modelled as a sequence of one-character strings.                *)
(***************************************************************************)
EXTENDS Integers, Sequences, FiniteSets, TLC

VARIABLES
    \* ---- Player Bridge (page main world) ----
    ytplayer,           \* window.ytplayer, the native player object
    scriptMarker,       \* the element #qtube-player-control-script exists
    playerReady,        \* the readiness gate
    commandQueue,       \* queued seek times
    pollScheduled,      \* a setTimeout(ensurePlayerAndProcessQueue) is armed
    listenerInstalled,  \* the qtube_seek_video listener is on document.body
    scriptRuns,         \* history: number of times the injected script's body ran
    calls,              \* history: the native seekTo/playVideo invocations
    nEvents,            \* history: number of qtube_seek_video events dispatched
    lastDrain,          \* history: what the drain of the queue did
    uncaught            \* history: number of exceptions that left the bridge's code

bridgeVars == <<ytplayer, scriptMarker, playerReady, commandQueue, pollScheduled,
                listenerInstalled, scriptRuns, calls, nEvents, lastDrain, uncaught>>

\* ---- AI Gateway (callGeminiApi) ----
VARIABLES
    apiResponse,        \* what the generative-language endpoint returns
    apiResult           \* what callGeminiApi returned or threw

gatewayVars == <<apiResponse, apiResult>>

\* ---- Overlay Controller (QTube_content.js, isolated world) ----
VARIABLES
    overlayElement,     \* the module's overlayElement: 0 (null) or an element
    currentQuestion,    \* the module's currentQuestion: "null" or the question
    dom,                \* the #qtube-overlay elements attached to document.body
    els,                \* the overlay elements created so far, by element number
    requests,           \* processManualTranscript runs awaiting callGeminiApi
    lastOp              \* history: the last overlay operation

overlayVars == <<overlayElement, currentQuestion, dom, els, requests, lastOp>>

\* ---- Session Coordinator (QTube_popup.js) and the tabs it talks to ----
VARIABLES
    contentScriptReadyPromises, \* the Map: tab -> pending session (0: no entry)
    sessions,           \* the promises ensureContentScriptLoaded created
    asks,               \* the askQuestion runs, with their sendMessageWithRetry
    askButtonDisabled,  \* askButton.disabled
    popupMessage,       \* the text displayMessage shows
    popupClosed,        \* window.close() was called
    csLoaded,           \* QTube_content.js is listening in the active tab
    announcing,         \* its contentScriptReady message is in flight
    lastSubmit          \* history: the submission the last step made, if any

popupVars == <<contentScriptReadyPromises, sessions, asks, askButtonDisabled,
               popupMessage, popupClosed, csLoaded, announcing, lastSubmit>>

\* ---- The popup's processManualTranscript listener ----
VARIABLES
    proxy               \* the processManualTranscript requests it received

proxyVars == <<proxy>>

vars == <<bridgeVars, gatewayVars, overlayVars, popupVars, proxyVars>>

\* What an action of one part leaves alone.
notBridge == <<gatewayVars, overlayVars, popupVars, proxyVars>>
notGateway == <<bridgeVars, overlayVars, popupVars, proxyVars>>
notOverlay == <<gatewayVars, popupVars, proxyVars>>
notPopup == <<bridgeVars, gatewayVars, overlayVars, proxyVars>>
notProxy == <<bridgeVars, gatewayVars, overlayVars, popupVars>>

(***************************************************************************)
(* Bounds of the model.                                                    *)
(***************************************************************************)
MaxEvents == 3
MaxLines == 3
MaxShows == 2
MaxAsks == 2
MaxRetries == 3
MaxRequests == 2

\* The seek times carried by the events (83 = "01:23", 5 = "00:05").
Times == {5, 83}

(***************************************************************************)
(* Sequence helpers.                                                       *)
(***************************************************************************)

SelectOp(s, op) == SelectSeq(s, LAMBDA c : c.op = op)

(***************************************************************************)
(* Text: sequences of one-character strings, and the JavaScript string     *)
(* operations callGeminiApi uses.                                          *)
(***************************************************************************)
NL == "\n"

Digits == <<"0", "1", "2", "3", "4", "5", "6", "7", "8", "9">>

IsDigit(c) == \E d \in 1..10 : Digits[d] = c

DigitValue(c) == (CHOOSE d \in 1..10 : Digits[d] = c) - 1

\* \s of a regular expression and the characters trim() strips.
IsSpace(c) == c \in {" ", NL, "\t", "\r"}

\* The characters "." does not match.
IsLineTerminator(c) == c \in {NL, "\r"}

\* s[k], or "" past either end.
CharAt(s, k) == IF k >= 1 /\ k <= Len(s) THEN s[k] ELSE ""

\* parseInt(digits, 10)
RECURSIVE ParseInt(_)
ParseInt(ds) ==
    IF ds = <<>> THEN 0
    ELSE 10 * ParseInt(SubSeq(ds, 1, Len(ds) - 1)) + DigitValue(ds[Len(ds)])

\* String(n) for n >= 0
RECURSIVE NumberToString(_)
NumberToString(n) ==
    IF n < 10 THEN <<Digits[n + 1]>>
    ELSE NumberToString(n \div 10) \o <<Digits[(n % 10) + 1]>>

\* str.padStart(2, '0')
PadStart2(str) == IF Len(str) < 2 THEN <<"0">> \o str ELSE str

RECURSIVE TrimStart(_)
TrimStart(s) ==
    IF s # <<>> /\ IsSpace(Head(s)) THEN TrimStart(Tail(s)) ELSE s

RECURSIVE TrimEnd(_)
TrimEnd(s) ==
    IF s # <<>> /\ IsSpace(s[Len(s)]) THEN TrimEnd(SubSeq(s, 1, Len(s) - 1)) ELSE s

\* str.trim()
Trim(s) == TrimEnd(TrimStart(s))

\* str.indexOf(needle): the first position needle occurs at, 0 when none.
IndexOf(s, needle) ==
    LET hits == {i \in 1..(Len(s) - Len(needle) + 1) :
                    SubSeq(s, i, i + Len(needle) - 1) = needle}
    IN  IF hits = {} THEN 0 ELSE CHOOSE i \in hits : \A k \in hits : i <= k

\* str.replace(needle, ''): the first occurrence removed, if there is one.
RemoveFirst(s, needle) ==
    LET i == IndexOf(s, needle)
    IN  IF i = 0 THEN s
        ELSE SubSeq(s, 1, i - 1) \o SubSeq(s, i + Len(needle), Len(s))

\* str.replace(/\n\s*\n/g, '\n\n'): from a newline, the longest run of
\* white space that ends in a newline becomes two newlines.
RECURSIVE CollapseBlankLines(_, _)
CollapseBlankLines(s, i) ==
    IF i > Len(s) THEN <<>>
    ELSE IF s[i] # NL THEN <<s[i]>> \o CollapseBlankLines(s, i + 1)
    ELSE LET ends == {k \in (i + 1)..Len(s) :
                        /\ s[k] = NL
                        /\ \A m \in (i + 1)..k : IsSpace(s[m])}
         IN  IF ends = {} THEN <<s[i]>> \o CollapseBlankLines(s, i + 1)
             ELSE LET last == CHOOSE k \in ends : \A m \in ends : m <= k
                  IN  <<NL, NL>> \o CollapseBlankLines(s, last + 1)

(***************************************************************************)
(* timestampRegex = /\[(\d{1,2}):(\d{2})\](?: - (.*?))?(\n|$)/g            *)
(* MatchAt(s, i): the match that starts at position i, as a record         *)
(* [found, last, minutes, seconds, hasText, text]; last is the position    *)
(* of the match's last character.                                          *)
(***************************************************************************)
NoMatch ==
    [found |-> FALSE, first |-> 0, last |-> 0, minutes |-> <<>>, seconds |-> <<>>,
     hasText |-> FALSE, text |-> <<>>]

MatchAt(s, i) ==
    LET n == Len(s)
        \* \d{1,2} followed by ":" : two digits, else one
        mlen == IF IsDigit(CharAt(s, i + 1)) /\ IsDigit(CharAt(s, i + 2))
                   /\ CharAt(s, i + 3) = ":" THEN 2
                ELSE IF IsDigit(CharAt(s, i + 1)) /\ CharAt(s, i + 2) = ":" THEN 1
                ELSE 0
        c == i + 1 + mlen            \* the position of ":"
        j == c + 4                   \* the position after "]"
        head == /\ CharAt(s, i) = "["
                /\ mlen > 0
                /\ IsDigit(CharAt(s, c + 1))
                /\ IsDigit(CharAt(s, c + 2))
                /\ CharAt(s, c + 3) = "]"
        dash == CharAt(s, j) = " " /\ CharAt(s, j + 1) = "-" /\ CharAt(s, j + 2) = " "
        \* (.*?) then (\n|$): up to the first line terminator or the end
        stops == {k \in (j + 3)..(n + 1) : k = n + 1 \/ IsLineTerminator(s[k])}
        e == CHOOSE k \in stops : \A m \in stops : k <= m
        base == [found |-> TRUE, first |-> i, last |-> 0,
                 minutes |-> SubSeq(s, i + 1, i + mlen),
                 seconds |-> SubSeq(s, c + 1, c + 2),
                 hasText |-> FALSE, text |-> <<>>]
    IN  IF ~head THEN NoMatch
        ELSE IF dash
        THEN IF e = n + 1
             THEN [base EXCEPT !.last = n, !.hasText = TRUE,
                               !.text = SubSeq(s, j + 3, n)]
             ELSE IF s[e] = NL
             THEN [base EXCEPT !.last = e, !.hasText = TRUE,
                               !.text = SubSeq(s, j + 3, e - 1)]
             ELSE NoMatch
        ELSE IF j = n + 1 THEN [base EXCEPT !.last = n]
        ELSE IF CharAt(s, j) = NL THEN [base EXCEPT !.last = j]
        ELSE NoMatch

\* timestampRegex.exec(s) with lastIndex = from - 1: the leftmost match
\* that starts at from or later.
RECURSIVE Exec(_, _)
Exec(s, from) ==
    IF from > Len(s) THEN NoMatch
    ELSE IF s[from] = "[" /\ MatchAt(s, from).found THEN MatchAt(s, from)
    ELSE Exec(s, from + 1)

FullMatch(s, m) == SubSeq(s, m.first, m.last)

\* The label copied from the text as written, not padded.
Citation_RawLabel(m) ==
    [time |-> (ParseInt(m.minutes) * 60) + ParseInt(m.seconds),
     timestamp |-> m.minutes \o <<":">> \o m.seconds,
     text |-> IF m.hasText /\ m.text # <<>> THEN Trim(m.text) ELSE <<>>]

\* One entry of parsedTimestamps (lines 196-206).
Citation(m) ==
    LET minutes == ParseInt(m.minutes)
        seconds == ParseInt(m.seconds)
    IN  [time |-> (minutes * 60) + seconds,
         timestamp |-> PadStart2(NumberToString(minutes)) \o <<":">>
                       \o PadStart2(NumberToString(seconds)),
         text |-> IF m.hasText /\ m.text # <<>> THEN Trim(m.text) ELSE <<>>]

\* The while loop of lines 195-210, from the match m on: parsedTimestamps
\* and cleanAnswer when the loop ends.
RECURSIVE ExtractTimestamps(_, _, _, _)
ExtractTimestamps(full, m, clean, parsed) ==
    IF ~m.found THEN [timestamps |-> parsed, clean |-> clean]
    ELSE ExtractTimestamps(full, Exec(full, m.last + 1),
                           Trim(RemoveFirst(clean, FullMatch(full, m))),
                           Append(parsed, Citation(m)))

\* Lines 187-215: the parsed answer of a well-formed response.
ParseAnswer(fullAiAnswer) ==
    LET r == ExtractTimestamps(fullAiAnswer, Exec(fullAiAnswer, 1), fullAiAnswer, <<>>)
    IN  [answer |-> Trim(CollapseBlankLines(r.clean, 1)),
         timestamps |-> r.timestamps]

(***************************************************************************)
(* The answer texts of the model: up to MaxLines lines, each one of the    *)
(* line templates below, joined by newlines, with or without a final       *)
(* newline.                                                                *)
(***************************************************************************)
\* "[01:23] - Intro"
LineIntro == <<"[", "0", "1", ":", "2", "3", "]", " ", "-", " ", "I", "n", "t", "r", "o">>

\* "Some text"
LineSomeText == <<"S", "o", "m", "e", " ", "t", "e", "x", "t">>

\* "[00:05]"
LineBare == <<"[", "0", "0", ":", "0", "5", "]">>

\* "[1:07] -  a " : a one-digit minute, white space around the description
LineOneDigit == <<"[", "1", ":", "0", "7", "]", " ", "-", " ", " ", "a", " ">>

\* an empty line
LineBlank == <<>>

\* "[00:05] x" : brackets, but not a citation (no " - ", not at a line's end)
LineNotCitation == <<"[", "0", "0", ":", "0", "5", "]", " ", "x">>

LineTemplates ==
    <<LineIntro, LineSomeText, LineBare, LineOneDigit, LineBlank, LineNotCitation>>

RECURSIVE JoinLines(_)
JoinLines(ls) ==
    IF ls = <<>> THEN <<>>
    ELSE IF Len(ls) = 1 THEN LineTemplates[ls[1]]
    ELSE LineTemplates[ls[1]] \o <<NL>> \o JoinLines(Tail(ls))

\* The text of candidates[0].content.parts[0].text
TextOf(resp) == JoinLines(resp.lines) \o (IF resp.nl THEN <<NL>> ELSE <<>>)

LineSeqs == UNION {[1..n -> 1..Len(LineTemplates)] : n \in 0..MaxLines}

\* The endpoint's responses: a non-success status, a success whose body
\* lacks the answer field, a success with an answer text.
Responses ==
    {[ok |-> FALSE, valid |-> FALSE, lines |-> <<>>, nl |-> FALSE],
     [ok |-> TRUE, valid |-> FALSE, lines |-> <<>>, nl |-> FALSE]}
    \cup {[ok |-> TRUE, valid |-> TRUE, lines |-> ls, nl |-> nl] :
            ls \in LineSeqs, nl \in BOOLEAN}

NoResult == [done |-> FALSE, threw |-> FALSE, error |-> "", answer |-> <<>>,
             timestamps |-> <<>>]

\* callGeminiApi(prompt), given the endpoint's response (lines 167-219).
CallGeminiApi(resp) ==
    IF ~resp.ok
    THEN [NoResult EXCEPT !.done = TRUE, !.threw = TRUE,
                          !.error = "Gemini API request failed"]
    ELSE IF ~resp.valid
    THEN [NoResult EXCEPT !.done = TRUE, !.threw = TRUE,
                          !.error = "AI response structure invalid or empty."]
    ELSE LET parsed == ParseAnswer(TextOf(resp))
         IN  [NoResult EXCEPT !.done = TRUE, !.answer = parsed.answer,
                              !.timestamps = parsed.timestamps]

\* The request completes and callGeminiApi returns or throws.
GeminiCall ==
    /\ ~apiResult.done
    /\ apiResult' = CallGeminiApi(apiResponse)
    /\ UNCHANGED <<apiResponse, notGateway>>

InitGateway ==
    /\ apiResponse \in Responses
    /\ apiResult = NoResult

IdleGateway ==
    /\ apiResponse = [ok |-> FALSE, valid |-> FALSE, lines |-> <<>>, nl |-> FALSE]
    /\ apiResult = NoResult

(***************************************************************************)
(* The native player.  window.ytplayer is undefined, null, or an object    *)
(* that may or may not carry the three methods and the loaded flag;        *)
(* state is what getPlayerState() returns (-1 unstarted, 5 cued,           *)
(* 1 playing).                                                             *)
(***************************************************************************)
PlayerStates == {-1, 5, 1}

PlayerObject(sk, pl, gs, ld, st) ==
    [exists |-> "object", seekTo |-> sk, playVideo |-> pl,
     getPlayerState |-> gs, loaded |-> ld, state |-> st]

PlayerUndefined ==
    [exists |-> "undefined", seekTo |-> FALSE, playVideo |-> FALSE,
     getPlayerState |-> FALSE, loaded |-> FALSE, state |-> -1]

PlayerNull ==
    [exists |-> "null", seekTo |-> FALSE, playVideo |-> FALSE,
     getPlayerState |-> FALSE, loaded |-> FALSE, state |-> -1]

\* The player values of the model: every shape the readiness predicate
\* tells apart (a method missing, the flag unset, each reported state).
PlayerValues ==
    {PlayerUndefined, PlayerNull}
    \cup {PlayerObject(TRUE, TRUE, TRUE, TRUE, st) : st \in PlayerStates}
    \cup {PlayerObject(sk, pl, gs, ld, -1) :
            sk \in BOOLEAN, pl \in BOOLEAN, gs \in BOOLEAN, ld \in BOOLEAN}

\* A player that answers seek commands.
PlayerActive == PlayerObject(TRUE, TRUE, TRUE, TRUE, 1)

(***************************************************************************)
(* isYouTubePlayerAPIReady(): "true", "false", or "throw" when reading a   *)
(* property of undefined or null raises a TypeError (line 63 for null,     *)
(* line 71 for undefined).                                                 *)
(***************************************************************************)
IsYouTubePlayerAPIReady_NoStateCheck(p) ==
    CASE p.exists = "null" -> "throw"
      [] p.exists = "undefined" -> "throw"
      [] OTHER ->
           IF p.seekTo /\ p.playVideo /\ p.getPlayerState /\ p.loaded
           THEN "true" ELSE "false"

IsYouTubePlayerAPIReady(p) ==
    CASE p.exists = "null" -> "throw"
      [] p.exists = "undefined" -> "throw"
      [] OTHER ->
           LET isReady == p.seekTo /\ p.playVideo /\ p.getPlayerState /\ p.loaded
           IN  IF ~isReady THEN "false"
               ELSE IF p.state = -1 \/ p.state = 5 THEN "false"
               ELSE "true"

(***************************************************************************)
(* processSeekCommand(seconds): the native invocations it makes, as a      *)
(* record [threw, made].  outcome is what the native player does:          *)
(* "ok", "seekThrows" (seekTo raises, playVideo is skipped) or             *)
(* "playThrows".  threw is TRUE when the exception leaves the function     *)
(* (the readiness predicate raised, outside the try block).                *)
(***************************************************************************)
CallOutcomes == {"ok", "seekThrows", "playThrows"}

Invocation(op, seconds, gate, threw) ==
    [op |-> op, time |-> seconds, gate |-> gate, threw |-> threw]

ProcessSeekCommand_NoCatch(p, seconds, gate, outcome) ==
    LET ready == IsYouTubePlayerAPIReady(p)
    IN  CASE ready = "throw" -> [threw |-> TRUE, made |-> <<>>]
          [] ready = "false" -> [threw |-> FALSE, made |-> <<>>]
          [] OTHER ->
               [threw |-> outcome # "ok",
                made |->
                  IF outcome = "seekThrows"
                  THEN <<Invocation("seek", seconds, gate, TRUE)>>
                  ELSE <<Invocation("seek", seconds, gate, FALSE),
                         Invocation("play", seconds, gate, outcome = "playThrows")>>]

ProcessSeekCommand(p, seconds, gate, outcome) ==
    LET ready == IsYouTubePlayerAPIReady(p)
    IN  CASE ready = "throw" -> [threw |-> TRUE, made |-> <<>>]
          [] ready = "false" -> [threw |-> FALSE, made |-> <<>>]
          [] OTHER ->
               [threw |-> FALSE,
                made |->
                  IF outcome = "seekThrows"
                  THEN <<Invocation("seek", seconds, gate, TRUE)>>
                  ELSE <<Invocation("seek", seconds, gate, FALSE),
                         Invocation("play", seconds, gate, outcome = "playThrows")>>]

\* The while loop of ensurePlayerAndProcessQueue: shift and process each
\* queued command, first to last.  outcomes[i] is the native player's
\* behaviour on the i-th command.
RECURSIVE DrainQueue_Lifo(_, _, _, _)
DrainQueue_Lifo(p, queue, gate, outcomes) ==
    IF queue = <<>> THEN <<>>
    ELSE ProcessSeekCommand(p, queue[Len(queue)], gate, Head(outcomes)).made
         \o DrainQueue_Lifo(p, SubSeq(queue, 1, Len(queue) - 1), gate, Tail(outcomes))

RECURSIVE DrainQueue(_, _, _, _)
DrainQueue(p, queue, gate, outcomes) ==
    IF queue = <<>> THEN <<>>
    ELSE ProcessSeekCommand(p, Head(queue), gate, Head(outcomes)).made
         \o DrainQueue(p, Tail(queue), gate, Tail(outcomes))

NoDrain == [done |-> FALSE, queue |-> <<>>, made |-> <<>>, outcomes |-> <<>>]

(***************************************************************************)
(* ensurePlayerAndProcessQueue(): one run of the polling function, as a    *)
(* relation between the bridge's state and its next state.  An exception   *)
(* of the readiness predicate leaves the function before setTimeout        *)
(* re-arms the poll.                                                       *)
(***************************************************************************)
EnsurePlayerAndProcessQueue ==
    IF playerReady
    THEN /\ pollScheduled' = TRUE
         /\ UNCHANGED <<playerReady, commandQueue, calls, lastDrain, uncaught>>
    ELSE LET ready == IsYouTubePlayerAPIReady(ytplayer)
         IN  CASE ready = "throw" ->
                    /\ pollScheduled' = FALSE
                    /\ uncaught' = uncaught + 1
                    /\ UNCHANGED <<playerReady, commandQueue, calls, lastDrain>>
               [] ready = "false" ->
                    /\ pollScheduled' = TRUE
                    /\ UNCHANGED <<playerReady, commandQueue, calls, lastDrain, uncaught>>
               [] OTHER ->
                    \E outcomes \in [1..Len(commandQueue) -> CallOutcomes] :
                      LET made == DrainQueue(ytplayer, commandQueue, TRUE, outcomes)
                      IN  /\ playerReady' = TRUE
                          /\ commandQueue' = <<>>
                          /\ calls' = calls \o made
                          /\ lastDrain' = [done |-> TRUE, queue |-> commandQueue,
                                           made |-> made, outcomes |-> outcomes]
                          /\ pollScheduled' = TRUE
                          /\ UNCHANGED uncaught

(***************************************************************************)
(* The injected script's body (the IIFE): the first run of the polling     *)
(* function, then addEventListener.  When the first run raises, the rest   *)
(* of the body is not executed.                                            *)
(***************************************************************************)
BridgeScriptBody ==
    /\ EnsurePlayerAndProcessQueue
    /\ listenerInstalled' = pollScheduled'
    /\ scriptRuns' = scriptRuns + 1

\* The same, without the test of the marker element.
InjectYouTubePlayerControlScript_NoMarker ==
    /\ scriptMarker' = TRUE
    /\ BridgeScriptBody

\* injectYouTubePlayerControlScript(): the marker element prevents a
\* second injection; appending the script element runs its body.
InjectYouTubePlayerControlScript ==
    IF scriptMarker
    THEN UNCHANGED <<scriptMarker, playerReady, commandQueue, pollScheduled,
                     listenerInstalled, scriptRuns, calls, lastDrain, uncaught>>
    ELSE /\ scriptMarker' = TRUE
         /\ BridgeScriptBody

\* The page asks for the bridge (showOverlay does, on every show).
InjectBridge ==
    /\ InjectYouTubePlayerControlScript
    /\ UNCHANGED <<ytplayer, nEvents, notBridge>>

\* The 200 ms timer fires.
PollTick ==
    /\ pollScheduled
    /\ EnsurePlayerAndProcessQueue
    /\ UNCHANGED <<ytplayer, scriptMarker, listenerInstalled, scriptRuns, nEvents, notBridge>>

(***************************************************************************)
(* The qtube_seek_video listener.                                          *)
(***************************************************************************)
SeekListener_NoGate(seconds, outcome) ==
    LET r == ProcessSeekCommand(ytplayer, seconds, playerReady, outcome)
    IN  /\ calls' = calls \o r.made
        /\ uncaught' = uncaught + (IF r.threw THEN 1 ELSE 0)
        /\ UNCHANGED commandQueue

\* The listener pushing the time whatever the gate says.
SeekListener_AlwaysQueues(seconds, outcome) ==
    /\ commandQueue' = Append(commandQueue, seconds)
    /\ UNCHANGED <<calls, uncaught>>

SeekListener(seconds, outcome) ==
    IF playerReady
    THEN LET r == ProcessSeekCommand(ytplayer, seconds, playerReady, outcome)
         IN  /\ calls' = calls \o r.made
             /\ uncaught' = uncaught + (IF r.threw THEN 1 ELSE 0)
             /\ UNCHANGED commandQueue
    ELSE /\ commandQueue' = Append(commandQueue, seconds)
         /\ UNCHANGED <<calls, uncaught>>

\* A qtube_seek_video event is dispatched on document.body.
SeekEvent ==
    /\ nEvents < MaxEvents
    /\ nEvents' = nEvents + 1
    /\ \E seconds \in Times, outcome \in CallOutcomes :
         IF listenerInstalled
         THEN SeekListener(seconds, outcome)
         ELSE UNCHANGED <<commandQueue, calls, uncaught>>
    /\ UNCHANGED <<ytplayer, scriptMarker, playerReady, pollScheduled,
                   listenerInstalled, scriptRuns, lastDrain, notBridge>>

\* The page replaces or changes its player (load, navigation, playback).
PlayerChange ==
    /\ ytplayer' \in PlayerValues \ {ytplayer}
    /\ UNCHANGED <<scriptMarker, playerReady, commandQueue, pollScheduled,
                   listenerInstalled, scriptRuns, calls, nEvents, lastDrain, uncaught, notBridge>>

InitBridge ==
    /\ ytplayer \in PlayerValues
    /\ scriptMarker = FALSE
    /\ playerReady = FALSE
    /\ commandQueue = <<>>
    /\ pollScheduled = FALSE
    /\ listenerInstalled = FALSE
    /\ scriptRuns = 0
    /\ calls = <<>>
    /\ nEvents = 0
    /\ lastDrain = NoDrain
    /\ uncaught = 0

NextBridge ==
    \/ InjectBridge
    \/ PollTick
    \/ SeekEvent
    \/ PlayerChange

\* The bridge before the page asked for it, with an inert player object.
IdleBridge ==
    /\ ytplayer = PlayerObject(FALSE, FALSE, FALSE, FALSE, -1)
    /\ scriptMarker = FALSE
    /\ playerReady = FALSE
    /\ commandQueue = <<>>
    /\ pollScheduled = FALSE
    /\ listenerInstalled = FALSE
    /\ scriptRuns = 0
    /\ calls = <<>>
    /\ nEvents = 0
    /\ lastDrain = NoDrain
    /\ uncaught = 0


(***************************************************************************)
(* The Overlay Controller.  An overlay element is a record: the response   *)
(* panel (.qtube-response), whether the transcript section is hidden,      *)
(* whether the analyze button is disabled, the textarea's value and the    *)
(* times of the timestamp links rendered in the panel.                     *)
(***************************************************************************)
Questions == {"q1", "q2"}

\* The textarea's values: empty, white space only, a transcript.
Transcripts == {<<>>, <<" ", NL>>, <<" ", "t", " ">>}

NewElement ==
    [panel |-> "empty", inputHidden |-> FALSE, btnDisabled |-> FALSE,
     transcript |-> <<>>, links |-> <<>>]

\* The responses of updateOverlay: loading, an answer, an error.
LoadingPayload == [type |-> "loading", success |-> FALSE, timestamps |-> <<>>]
SuccessPayload(ts) == [type |-> "result", success |-> TRUE, timestamps |-> ts]
FailurePayload == [type |-> "result", success |-> FALSE, timestamps |-> <<>>]

TimesOf(ts) == [i \in 1..Len(ts) |-> ts[i].time]

\* The endpoint's responses used with the overlay.
OverlayResponses ==
    {[ok |-> FALSE, valid |-> FALSE, lines |-> <<>>, nl |-> FALSE],
     [ok |-> TRUE, valid |-> TRUE, lines |-> <<2>>, nl |-> FALSE],
     [ok |-> TRUE, valid |-> TRUE, lines |-> <<1, 2, 3>>, nl |-> TRUE]}

\* document.getElementById('qtube...'): the first such element of the page.
ElementInPage(d) == IF d = {} THEN 0 ELSE CHOOSE e \in d : \A k \in d : e <= k

\* The overlay's state as hideOverlay reads and writes it.
OverlayState(el, q, d) == [overlayElement |-> el, currentQuestion |-> q, dom |-> d]

\* hideOverlay() forgets the element but leaves the question.
HideOverlay_KeepQuestion(st) ==
    IF st.overlayElement # 0
    THEN OverlayState(0, st.currentQuestion, st.dom \ {st.overlayElement})
    ELSE st

\* hideOverlay(): lines 295-309.
HideOverlay(st) ==
    IF st.overlayElement # 0
    THEN OverlayState(0, "null", st.dom \ {st.overlayElement})
    ELSE st

\* showOverlay's state after its first lines, without hiding the old overlay.
ShowOverlayStart_NoHide(st) == st

\* showOverlay(question), lines 230-233: an existing overlay is hidden first.
ShowOverlayStart(st) ==
    IF st.overlayElement # 0 THEN HideOverlay(st) ELSE st

\* The same, writing to the element created last when overlayElement is
\* null.
UpdateOverlay_NoNullCheck(es, target, response) ==
    LET el == IF target = 0 THEN Len(es) ELSE target
    IN  IF el = 0 THEN es
        ELSE IF response.type = "loading"
        THEN [es EXCEPT ![el].panel = "loading", ![el].inputHidden = TRUE,
                        ![el].links = <<>>]
        ELSE IF response.success
        THEN [es EXCEPT ![el].panel = "answered", ![el].inputHidden = TRUE,
                        ![el].links = TimesOf(response.timestamps)]
        ELSE [es EXCEPT ![el].panel = "errored", ![el].inputHidden = TRUE,
                        ![el].links = <<>>]

\* updateOverlay(response): lines 316-393, as the new value of els.
UpdateOverlay(es, target, response) ==
    IF target = 0 THEN es
    ELSE IF response.type = "loading"
    THEN [es EXCEPT ![target].panel = "loading", ![target].inputHidden = TRUE,
                    ![target].links = <<>>]
    ELSE IF response.success
    THEN [es EXCEPT ![target].panel = "answered", ![target].inputHidden = TRUE,
                    ![target].links = TimesOf(response.timestamps)]
    ELSE [es EXCEPT ![target].panel = "errored", ![target].inputHidden = TRUE,
                    ![target].links = <<>>]

\* The history: the operation, its question, the overlay it found, and
\* the operation before it.
Operation(op, q, had, prev) == [op |-> op, q |-> q, had |-> had, prev |-> prev]

Logged(op, q) == Operation(op, q, overlayElement, lastOp.op)

\* The message {type: 'showOverlay', question}: showOverlay(question),
\* which also asks for the Player Bridge.
ShowOverlay ==
    /\ Len(els) < MaxShows
    /\ \E question \in Questions :
         LET st == ShowOverlayStart(OverlayState(overlayElement, currentQuestion, dom))
             new == Len(els) + 1
         IN  /\ currentQuestion' = question
             /\ overlayElement' = new
             /\ els' = Append(els, NewElement)
             /\ dom' = st.dom \cup {new}
             /\ lastOp' = Logged("show", question)
    /\ InjectYouTubePlayerControlScript
    /\ UNCHANGED <<ytplayer, nEvents, requests, notOverlay>>

\* A handler runs hideOverlay().
RunHideOverlay ==
    LET st == HideOverlay(OverlayState(overlayElement, currentQuestion, dom))
    IN  /\ overlayElement' = st.overlayElement
        /\ currentQuestion' = st.currentQuestion
        /\ dom' = st.dom
        /\ lastOp' = Logged("hide", "null")

\* The message {type: 'hideOverlay'}.
HideOverlayMessage ==
    /\ RunHideOverlay
    /\ UNCHANGED <<els, requests, bridgeVars, notOverlay>>

\* A click on the close button, on the overlay's background, or on the
\* error block's Close button.
CloseClick ==
    /\ dom # {}
    /\ RunHideOverlay
    /\ UNCHANGED <<els, requests, bridgeVars, notOverlay>>

\* The message {type: 'updateOverlay', response}.
UpdateOverlayMessage ==
    /\ \E response \in {LoadingPayload, SuccessPayload(<<>>), FailurePayload} :
         /\ els' = UpdateOverlay(els, overlayElement, response)
         /\ lastOp' = Logged("update", "null")
    /\ UNCHANGED <<overlayElement, currentQuestion, dom, requests, bridgeVars, notOverlay>>

\* The user edits the textarea.
TypeTranscript ==
    /\ \E e \in dom, t \in Transcripts :
         /\ ~els[e].inputHidden
         /\ els[e].transcript # t
         /\ els' = [els EXCEPT ![e].transcript = t]
    /\ UNCHANGED <<overlayElement, currentQuestion, dom, requests, lastOp,
                   bridgeVars, notOverlay>>

\* The same, with the textarea's value tested as typed.
AnalyzeClick_NoTrim ==
    /\ \E e \in dom :
         /\ ~els[e].inputHidden
         /\ ~els[e].btnDisabled
         /\ LET input == ElementInPage(dom)
                manualTranscript == els[input].transcript
            IN  IF manualTranscript = <<>>
                THEN /\ lastOp' = Logged("alert", "null")
                     /\ UNCHANGED <<els, requests>>
                ELSE /\ els' = UpdateOverlay([els EXCEPT ![input].btnDisabled = TRUE],
                                             overlayElement, LoadingPayload)
                     /\ requests' = requests \cup
                                      {[btn |-> input, question |-> currentQuestion]}
                     /\ lastOp' = Logged("analyze", currentQuestion)
    /\ UNCHANGED <<overlayElement, currentQuestion, dom, bridgeVars, notOverlay>>

\* A click on the analyze button: processManualTranscript up to its await
\* (lines 400-438).
AnalyzeClick ==
    /\ \E e \in dom :
         /\ ~els[e].inputHidden
         /\ ~els[e].btnDisabled
         /\ LET input == ElementInPage(dom)
                manualTranscript == Trim(els[input].transcript)
            IN  IF manualTranscript = <<>>
                THEN /\ lastOp' = Logged("alert", "null")
                     /\ UNCHANGED <<els, requests>>
                ELSE /\ els' = UpdateOverlay([els EXCEPT ![input].btnDisabled = TRUE],
                                             overlayElement, LoadingPayload)
                     /\ requests' = requests \cup
                                      {[btn |-> input, question |-> currentQuestion]}
                     /\ lastOp' = Logged("analyze", currentQuestion)
    /\ UNCHANGED <<overlayElement, currentQuestion, dom, bridgeVars, notOverlay>>

\* The same, without the catch block's updateOverlay.
AnalyzeCompletes_ErrorNotShown ==
    /\ \E r \in requests, resp \in OverlayResponses :
         LET result == CallGeminiApi(resp)
             shown == IF result.threw THEN els
                      ELSE UpdateOverlay(els, overlayElement,
                                         SuccessPayload(result.timestamps))
         IN  /\ els' = IF shown[r.btn].btnDisabled
                       THEN [shown EXCEPT ![r.btn].btnDisabled = FALSE]
                       ELSE shown
             /\ requests' = requests \ {r}
             /\ lastOp' = Logged("completed", r.question)
    /\ UNCHANGED <<overlayElement, currentQuestion, dom, bridgeVars, notOverlay>>

\* callGeminiApi returns or throws: the rest of processManualTranscript
\* (lines 438-456).
AnalyzeCompletes ==
    /\ \E r \in requests, resp \in OverlayResponses :
         LET result == CallGeminiApi(resp)
             shown == UpdateOverlay(els, overlayElement,
                                    IF result.threw THEN FailurePayload
                                    ELSE SuccessPayload(result.timestamps))
         IN  /\ els' = IF shown[r.btn].btnDisabled
                       THEN [shown EXCEPT ![r.btn].btnDisabled = FALSE]
                       ELSE shown
             /\ requests' = requests \ {r}
             /\ lastOp' = Logged("completed", r.question)
    /\ UNCHANGED <<overlayElement, currentQuestion, dom, bridgeVars, notOverlay>>

\* The link's data-time attribute (line 348) and parseFloat of it (line 366).
DataTime(time) == NumberToString(time)

ParseFloat(str) == ParseInt(str)

\* A click on a timestamp link that also reaches the background handler.
TimestampClick_ClosesOverlay ==
    /\ nEvents < MaxEvents
    /\ nEvents' = nEvents + 1
    /\ \E e \in dom : \E i \in 1..Len(els[e].links), outcome \in CallOutcomes :
         LET seconds == ParseFloat(DataTime(els[e].links[i]))
         IN  IF listenerInstalled
             THEN SeekListener(seconds, outcome)
             ELSE UNCHANGED <<commandQueue, calls, uncaught>>
    /\ RunHideOverlay
    /\ UNCHANGED <<els, requests, ytplayer, scriptMarker, playerReady,
                   pollScheduled, listenerInstalled, scriptRuns, lastDrain, notOverlay>>

\* A click on a timestamp link (lines 362-372): the qtube_seek_video event
\* is dispatched on document.body, and dispatchEvent runs the bridge's
\* listener, if installed, before it returns.  The click's target is the
\* link and its propagation is stopped: the background handler (lines
\* 272-278) does nothing.
TimestampClick ==
    /\ nEvents < MaxEvents
    /\ nEvents' = nEvents + 1
    /\ \E e \in dom : \E i \in 1..Len(els[e].links), outcome \in CallOutcomes :
         LET seconds == ParseFloat(DataTime(els[e].links[i]))
         IN  IF listenerInstalled
             THEN SeekListener(seconds, outcome)
             ELSE UNCHANGED <<commandQueue, calls, uncaught>>
    /\ lastOp' = Logged("seek", "null")
    /\ UNCHANGED <<overlayElement, currentQuestion, dom, els, requests,
                   ytplayer, scriptMarker, playerReady, pollScheduled,
                   listenerInstalled, scriptRuns, lastDrain, notOverlay>>

\* The page's player finishes loading and starts playing.
PlayerStarts ==
    /\ ytplayer # PlayerActive
    /\ ytplayer' = PlayerActive
    /\ UNCHANGED <<scriptMarker, playerReady, commandQueue, pollScheduled,
                   listenerInstalled, scriptRuns, calls, nEvents, lastDrain, uncaught, notBridge>>

InitOverlay ==
    /\ overlayElement = 0
    /\ currentQuestion = "null"
    /\ dom = {}
    /\ els = <<>>
    /\ requests = {}
    /\ lastOp = Operation("none", "null", 0, "none")

NextOverlay ==
    \/ ShowOverlay
    \/ HideOverlayMessage
    \/ CloseClick
    \/ UpdateOverlayMessage
    \/ TypeTranscript
    \/ AnalyzeClick
    \/ AnalyzeCompletes



(***************************************************************************)
(* Session Coordinator (QTube_popup.js).                                   *)
(*                                                                         *)
(* The tabs.  The popup's map lives as long as the popup is open, and so   *)
(* long the window's active tab, the one tabs.query returns, is the same:  *)
(* "active".  csLoaded says whether QTube_content.js listens in it, and    *)
(* announcing that the contentScriptReady message the script sends when    *)
(* it starts (QTube_content.js line 477) is in flight.  "other" is any     *)
(* other tab with the content script: the popup sees its announcements.    *)
(***************************************************************************)
Tabs == {"active", "other"}

NoTab == "none"

\* defaultText, the placeholder of the question box.
defaultText ==
    <<"A", "s", "k", " ", "a", " ", "q", "u", "e", "s", "t", "i", "o", "n",
      " ", "a", "b", "o", "u", "t", " ", "t", "h", "i", "s", " ", "v", "i",
      "d", "e", "o", " ", "(", "u", "n", "d", "e", "r", " ", "2", "0", "0",
      " ", "c", "h", "a", "r", "a", "c", "t", "e", "r", "s", ")", ".", ".",
      ".">>

QuestionLimit == 200
ShowOverlayRetries == 5

(***************************************************************************)
(* What the user can have in the question box when askQuestion runs:       *)
(* optional white space, then either the placeholder or a run of letters   *)
(* of one of the lengths below, then optional white space.  The state      *)
(* keeps this description; QuestionValue is the text itself.               *)
(***************************************************************************)
QuestionLengths ==
    {0, 1, QuestionLimit - 1, QuestionLimit, QuestionLimit + 1}

QuestionInputs ==
    [lead : {0, 1}, body : {"text"}, length : QuestionLengths, trail : {0, 1}]
    \cup
    [lead : {0, 1}, body : {"placeholder"}, length : {Len(defaultText)},
     trail : {0, 1}]

Spaces(n) == [i \in 1..n |-> " "]

QuestionValue(input) ==
    Spaces(input.lead)
    \o (IF input.body = "placeholder"
        THEN defaultText
        ELSE [i \in 1..input.length |-> "a"])
    \o Spaces(input.trail)

(***************************************************************************)
(* askQuestion's input validation: "empty", "tooLong" or "valid".          *)
(***************************************************************************)
ExceedsLimit_AtLimit(question) == Len(question) >= QuestionLimit

ExceedsLimit(question) == Len(question) > QuestionLimit

Validate(value) ==
    LET question == Trim(value)
    IN  IF question = <<>> \/ question = defaultText THEN "empty"
        ELSE IF ExceedsLimit(question) THEN "tooLong"
        ELSE "valid"

(***************************************************************************)
(* The promise ensureContentScriptLoaded creates ("session").  status is   *)
(* the promise's state; step is where the executor is: waiting for the     *)
(* ping, waiting for executeScript, timer armed, timer fired.  listening   *)
(* says that readyListener is registered.  The remaining fields record     *)
(* what happened: the ping's result, the number of executeScript calls,    *)
(* the result of the injection, what settled the promise and the tab the   *)
(* announcement that resolved it came from.                                *)
(***************************************************************************)
NewSession(tabId) ==
    [tabId |-> tabId, status |-> "pending", step |-> "ping",
     listening |-> TRUE, probe |-> "sent", injections |-> 0,
     injected |-> "none", settledBy |-> "none", readyFrom |-> NoTab]

\* resolve() and reject(): a promise that is settled stays as it is.
Settle(s, outcome, cause, from) ==
    IF s.status = "pending"
    THEN [s EXCEPT !.status = outcome, !.settledBy = cause,
                   !.readyFrom = from]
    ELSE s

\* readyListener's condition on the sender of the message.
ReadyListenerMatches_AnyTab(s, tab) == TRUE

ReadyListenerMatches(s, tab) == s.tabId = tab

\* The same, with the listener added only once executeScript has returned.
ReadyListener_AfterInjection(s, tab) ==
    IF s.listening /\ s.step = "armed" /\ ReadyListenerMatches(s, tab)
    THEN Settle([s EXCEPT !.listening = FALSE], "resolved", "announce", tab)
    ELSE s

\* readyListener, for a contentScriptReady message sent by tab.
ReadyListener(s, tab) ==
    IF s.listening /\ ReadyListenerMatches(s, tab)
    THEN Settle([s EXCEPT !.listening = FALSE], "resolved", "announce", tab)
    ELSE s

(***************************************************************************)
(* ensureContentScriptLoaded(tabId), up to its return: the entry of the    *)
(* map when there is one; otherwise a new promise, whose executor adds     *)
(* the listener and sends the ping, stored in the map.                     *)
(***************************************************************************)
EnsureContentScriptLoaded_NoHasCheck(map, ss, tabId) ==
    [map |-> [map EXCEPT ![tabId] = Len(ss) + 1],
     sessions |-> Append(ss, NewSession(tabId)),
     promise |-> Len(ss) + 1]

EnsureContentScriptLoaded(map, ss, tabId) ==
    IF map[tabId] # 0
    THEN [map |-> map, sessions |-> ss, promise |-> map[tabId]]
    ELSE [map |-> [map EXCEPT ![tabId] = Len(ss) + 1],
          sessions |-> Append(ss, NewSession(tabId)),
          promise |-> Len(ss) + 1]

(***************************************************************************)
(* sendMessageWithRetry, as a record: pc is "idle" (not called),           *)
(* "inflight" (tabs.sendMessage awaited), "backoff" (the delay awaited),   *)
(* "returned" or "threw"; i is the loop counter; attempts, waits,          *)
(* connFailures and otherFailures count the calls of tabs.sendMessage,     *)
(* the delays started, and the failed attempts by class; last is the       *)
(* outcome of the last attempt and result the response returned.           *)
(*                                                                         *)
(* An attempt ends in one of: "ok" (a response, lastError unset),          *)
(* "lastErrorConn"/"lastErrorOther" (lastError set; its message does or    *)
(* does not say "Could not establish connection"), "throwConn" /           *)
(* "throwOther" (tabs.sendMessage rejects, likewise).                      *)
(***************************************************************************)
SendOutcomes ==
    {"ok", "lastErrorConn", "lastErrorOther", "throwConn", "throwOther"}

ConnectionClass == {"lastErrorConn", "throwConn"}

Payloads == {"undefined", "ack"}

IdleSend ==
    [pc |-> "idle", retries |-> 0, i |-> 0, attempts |-> 0, waits |-> 0,
     connFailures |-> 0, otherFailures |-> 0, last |-> "none",
     result |-> "none"]

SendMessageWithRetry(retries) ==
    [IdleSend EXCEPT !.pc = "inflight", !.retries = retries, !.attempts = 1]

MayRetry_Always(sm) == TRUE

\* The loop's "i < retries".
MayRetry_OffByOne(sm) == sm.i + 1 < sm.retries

MayRetry(sm) == sm.i < sm.retries

\* Whether the failed attempt is followed by the delay and another attempt:
\* the lastError branch (lines 76-81, whose throw is caught at line 82 with
\* i = retries) and the catch block (lines 85-90).
Retries(sm, outcome) ==
    CASE outcome \in {"lastErrorConn", "lastErrorOther"} -> MayRetry(sm)
      [] outcome = "throwConn" -> MayRetry(sm)
      [] outcome = "throwOther" -> FALSE
      [] OTHER -> FALSE

AttemptReturns(sm, outcome, payload) ==
    IF outcome = "ok"
    THEN [sm EXCEPT !.pc = "returned", !.last = outcome, !.result = payload]
    ELSE LET failed ==
                 IF outcome \in ConnectionClass
                 THEN [sm EXCEPT !.last = outcome, !.connFailures = @ + 1]
                 ELSE [sm EXCEPT !.last = outcome, !.otherFailures = @ + 1]
         IN  IF Retries(sm, outcome)
             THEN [failed EXCEPT !.pc = "backoff"]
             ELSE [failed EXCEPT !.pc = "threw"]

\* The delay is over: i++, and the next tabs.sendMessage.
BackoffElapses(sm) ==
    [sm EXCEPT !.pc = "inflight", !.i = @ + 1, !.waits = @ + 1,
               !.attempts = @ + 1]

\* What a tab can answer: a response needs the content script's listener,
\* "Could not establish connection" is what a tab without it gives.
PossibleOutcome(outcome) ==
    /\ outcome = "ok" => csLoaded
    /\ outcome \in ConnectionClass => ~csLoaded

(***************************************************************************)
(* One run of askQuestion: pc is "query" (tabs.query awaited),             *)
(* "awaitReady" (the promise of ensureContentScriptLoaded awaited),        *)
(* "sending" (sendMessageWithRetry awaited), "done" (window.close()),      *)
(* "aborted" (not a watch page) or "failed" (the catch block).             *)
(***************************************************************************)
NewAsk ==
    [pc |-> "query", tabId |-> NoTab, promise |-> 0, sm |-> IdleSend]

\* lastSubmit: n counts the runs of askQuestion; input and verdict are
\* those of the run the last step started, "none" after any other step.
NoInput == [lead |-> 0, body |-> "none", length |-> 0, trail |-> 0]

NoSubmit == [n |-> 0, input |-> NoInput, verdict |-> "none"]

NotASubmit ==
    lastSubmit' = [NoSubmit EXCEPT !.n = lastSubmit.n]

\* askQuestion, up to its first await or its early return.
AskQuestion ==
    /\ ~popupClosed
    /\ lastSubmit.n < MaxAsks
    /\ \E input \in QuestionInputs :
          LET verdict == Validate(QuestionValue(input))
          IN  /\ lastSubmit' = [n |-> lastSubmit.n + 1, input |-> input,
                                verdict |-> verdict]
              /\ IF verdict = "valid"
                 THEN /\ askButtonDisabled' = TRUE
                      /\ popupMessage' = "ensuring"
                      /\ asks' = Append(asks, NewAsk)
                 ELSE /\ popupMessage' = verdict
                      /\ UNCHANGED <<askButtonDisabled, asks>>
    /\ UNCHANGED <<contentScriptReadyPromises, sessions, popupClosed,
                   csLoaded, announcing, notPopup>>

\* The same, with ensureContentScriptLoaded called before the test.
AskQueried_EnsuresFirst ==
    /\ ~popupClosed
    /\ \E a \in 1..Len(asks), tab \in {"active"}, isWatch \in BOOLEAN :
          /\ asks[a].pc = "query"
          /\ LET r == EnsureContentScriptLoaded(
                          contentScriptReadyPromises, sessions, tab)
             IN  /\ contentScriptReadyPromises' = r.map
                 /\ sessions' = r.sessions
                 /\ IF ~isWatch
                    THEN /\ popupMessage' = "notYouTube"
                         /\ askButtonDisabled' = FALSE
                         /\ asks' = [asks EXCEPT ![a].pc = "aborted"]
                    ELSE /\ asks' = [asks EXCEPT ![a].pc = "awaitReady",
                                                 ![a].tabId = tab,
                                                 ![a].promise = r.promise]
                         /\ UNCHANGED <<popupMessage, askButtonDisabled>>
    /\ NotASubmit
    /\ UNCHANGED <<popupClosed, csLoaded, announcing, notPopup>>

\* tabs.query returned: the watch-page test, then ensureContentScriptLoaded.
AskQueried ==
    /\ ~popupClosed
    /\ \E a \in 1..Len(asks), tab \in {"active"}, isWatch \in BOOLEAN :
          /\ asks[a].pc = "query"
          /\ IF ~isWatch
             THEN /\ popupMessage' = "notYouTube"
                  /\ askButtonDisabled' = FALSE
                  /\ asks' = [asks EXCEPT ![a].pc = "aborted"]
                  /\ UNCHANGED <<contentScriptReadyPromises, sessions>>
             ELSE LET r == EnsureContentScriptLoaded(
                               contentScriptReadyPromises, sessions, tab)
                  IN  /\ contentScriptReadyPromises' = r.map
                      /\ sessions' = r.sessions
                      /\ asks' = [asks EXCEPT ![a].pc = "awaitReady",
                                              ![a].tabId = tab,
                                              ![a].promise = r.promise]
                      /\ UNCHANGED <<popupMessage, askButtonDisabled>>
    /\ NotASubmit
    /\ UNCHANGED <<popupClosed, csLoaded, announcing, notPopup>>

\* The same, with the showOverlay message sent whatever the promise's end.
AskReady_SendsAnyway ==
    /\ ~popupClosed
    /\ \E a \in 1..Len(asks) :
          /\ asks[a].pc = "awaitReady"
          /\ sessions[asks[a].promise].status # "pending"
          /\ popupMessage' = "ready"
          /\ asks' = [asks EXCEPT
                        ![a].pc = "sending",
                        ![a].sm = SendMessageWithRetry(ShowOverlayRetries)]
          /\ UNCHANGED askButtonDisabled
    /\ NotASubmit
    /\ UNCHANGED <<contentScriptReadyPromises, sessions, popupClosed,
                   csLoaded, announcing, notPopup>>

\* The awaited promise is settled: the showOverlay message is sent, or the
\* catch and finally blocks run.
AskReady ==
    /\ ~popupClosed
    /\ \E a \in 1..Len(asks) :
          /\ asks[a].pc = "awaitReady"
          /\ sessions[asks[a].promise].status # "pending"
          /\ IF sessions[asks[a].promise].status = "resolved"
             THEN /\ popupMessage' = "ready"
                  /\ asks' = [asks EXCEPT
                                ![a].pc = "sending",
                                ![a].sm =
                                    SendMessageWithRetry(ShowOverlayRetries)]
                  /\ UNCHANGED askButtonDisabled
             ELSE /\ popupMessage' = "error"
                  /\ askButtonDisabled' = FALSE
                  /\ asks' = [asks EXCEPT ![a].pc = "failed"]
    /\ NotASubmit
    /\ UNCHANGED <<contentScriptReadyPromises, sessions, popupClosed,
                   csLoaded, announcing, notPopup>>

AskSent_ClosesInFinally ==
    /\ ~popupClosed
    /\ \E a \in 1..Len(asks) :
          /\ asks[a].pc = "sending"
          /\ asks[a].sm.pc \in {"returned", "threw"}
          /\ IF asks[a].sm.pc = "returned"
             THEN /\ asks' = [asks EXCEPT ![a].pc = "done"]
                  /\ UNCHANGED popupMessage
             ELSE /\ popupMessage' = "error"
                  /\ asks' = [asks EXCEPT ![a].pc = "failed"]
          /\ popupClosed' = TRUE
          /\ askButtonDisabled' = FALSE
    /\ NotASubmit
    /\ UNCHANGED <<contentScriptReadyPromises, sessions, csLoaded,
                   announcing, notPopup>>

\* sendMessageWithRetry is over: window.close(), or the catch block; the
\* finally block in both cases.
AskSent ==
    /\ ~popupClosed
    /\ \E a \in 1..Len(asks) :
          /\ asks[a].pc = "sending"
          /\ asks[a].sm.pc \in {"returned", "threw"}
          /\ IF asks[a].sm.pc = "returned"
             THEN /\ popupClosed' = TRUE
                  /\ asks' = [asks EXCEPT ![a].pc = "done"]
                  /\ UNCHANGED popupMessage
             ELSE /\ popupMessage' = "error"
                  /\ asks' = [asks EXCEPT ![a].pc = "failed"]
                  /\ UNCHANGED popupClosed
          /\ askButtonDisabled' = FALSE
    /\ NotASubmit
    /\ UNCHANGED <<contentScriptReadyPromises, sessions, csLoaded,
                   announcing, notPopup>>

\* One attempt of tabs.sendMessage ends.
SendAttemptReturns ==
    /\ ~popupClosed
    /\ \E a \in 1..Len(asks), outcome \in SendOutcomes, payload \in Payloads :
          /\ asks[a].sm.pc = "inflight"
          /\ PossibleOutcome(outcome)
          /\ asks' = [asks EXCEPT
                        ![a].sm = AttemptReturns(@, outcome, payload)]
    /\ NotASubmit
    /\ UNCHANGED <<contentScriptReadyPromises, sessions, askButtonDisabled,
                   popupMessage, popupClosed, csLoaded, announcing, notPopup>>

SendBackoffElapses ==
    /\ ~popupClosed
    /\ \E a \in 1..Len(asks) :
          /\ asks[a].sm.pc = "backoff"
          /\ asks' = [asks EXCEPT ![a].sm = BackoffElapses(@)]
    /\ NotASubmit
    /\ UNCHANGED <<contentScriptReadyPromises, sessions, askButtonDisabled,
                   popupMessage, popupClosed, csLoaded, announcing, notPopup>>

(***************************************************************************)
(* The executor of the promise, after the ping.                            *)
(***************************************************************************)
\* The same, with executeScript called after an answered ping too.
PingReturns_InjectsAnyway ==
    /\ ~popupClosed
    /\ \E s \in 1..Len(sessions) :
          /\ sessions[s].step = "ping"
          /\ sessions' =
               [sessions EXCEPT ![s] =
                  IF csLoaded
                  THEN Settle([@ EXCEPT !.probe = "answered",
                                        !.listening = FALSE,
                                        !.injections = @ + 1,
                                        !.step = "inject"],
                              "resolved", "pong", NoTab)
                  ELSE [@ EXCEPT !.probe = "failed",
                                 !.injections = @ + 1,
                                 !.step = "inject"]]
    /\ NotASubmit
    /\ UNCHANGED <<contentScriptReadyPromises, asks, askButtonDisabled,
                   popupMessage, popupClosed, csLoaded, announcing, notPopup>>

\* The ping is answered (the content script listens): the listener is
\* removed and the promise resolved, and the timer is armed.  Or it fails:
\* executeScript is called.
PingReturns ==
    /\ ~popupClosed
    /\ \E s \in 1..Len(sessions) :
          /\ sessions[s].step = "ping"
          /\ sessions' =
               [sessions EXCEPT ![s] =
                  IF csLoaded
                  THEN Settle([@ EXCEPT !.probe = "answered",
                                        !.listening = FALSE,
                                        !.step = "armed"],
                              "resolved", "pong", NoTab)
                  ELSE [@ EXCEPT !.probe = "failed",
                                 !.injections = @ + 1,
                                 !.step = "inject"]]
    /\ NotASubmit
    /\ UNCHANGED <<contentScriptReadyPromises, asks, askButtonDisabled,
                   popupMessage, popupClosed, csLoaded, announcing, notPopup>>

\* executeScript returns.  When it worked and the tab had no content script,
\* the script starts and announces itself.  When it raised, the listener is
\* removed and the promise rejected.  The timer is armed in both cases.
InjectReturns ==
    /\ ~popupClosed
    /\ \E s \in 1..Len(sessions), ok \in BOOLEAN :
          /\ sessions[s].step = "inject"
          /\ IF ok
             THEN /\ sessions' = [sessions EXCEPT ![s].injected = "ok",
                                                  ![s].step = "armed"]
                  /\ IF csLoaded
                     THEN UNCHANGED <<csLoaded, announcing>>
                     ELSE /\ csLoaded' = TRUE
                          /\ announcing' = TRUE
             ELSE /\ sessions' =
                       [sessions EXCEPT ![s] =
                          Settle([@ EXCEPT !.injected = "failed",
                                           !.listening = FALSE,
                                           !.step = "armed"],
                                 "rejected", "injectError", NoTab)]
                  /\ UNCHANGED <<csLoaded, announcing>>
    /\ NotASubmit
    /\ UNCHANGED <<contentScriptReadyPromises, asks, askButtonDisabled,
                   popupMessage, popupClosed, notPopup>>

\* The 15 s timer of a promise fires.
HandshakeTimeout_KeepsEntry ==
    /\ ~popupClosed
    /\ \E s \in 1..Len(sessions) :
          /\ sessions[s].step = "armed"
          /\ IF contentScriptReadyPromises[sessions[s].tabId] = s
             THEN sessions' =
                    [sessions EXCEPT ![s] =
                       Settle([@ EXCEPT !.listening = FALSE,
                                        !.step = "fired"],
                              "rejected", "timeout", NoTab)]
             ELSE sessions' = [sessions EXCEPT ![s].step = "fired"]
          /\ UNCHANGED contentScriptReadyPromises
    /\ NotASubmit
    /\ UNCHANGED <<asks, askButtonDisabled, popupMessage, popupClosed,
                   csLoaded, announcing, notPopup>>

\* The 15 s timer of a promise fires.
HandshakeTimeout ==
    /\ ~popupClosed
    /\ \E s \in 1..Len(sessions) :
          /\ sessions[s].step = "armed"
          /\ IF contentScriptReadyPromises[sessions[s].tabId] = s
             THEN /\ sessions' =
                       [sessions EXCEPT ![s] =
                          Settle([@ EXCEPT !.listening = FALSE,
                                           !.step = "fired"],
                                 "rejected", "timeout", NoTab)]
                  /\ contentScriptReadyPromises' =
                       [contentScriptReadyPromises EXCEPT
                          ![sessions[s].tabId] = 0]
             ELSE /\ sessions' = [sessions EXCEPT ![s].step = "fired"]
                  /\ UNCHANGED contentScriptReadyPromises
    /\ NotASubmit
    /\ UNCHANGED <<asks, askButtonDisabled, popupMessage, popupClosed,
                   csLoaded, announcing, notPopup>>

\* The active tab's contentScriptReady message reaches the popup's
\* listeners.
Announce ==
    /\ announcing
    /\ announcing' = FALSE
    /\ sessions' =
         IF popupClosed
         THEN sessions
         ELSE [s \in 1..Len(sessions) |-> ReadyListener(sessions[s], "active")]
    /\ NotASubmit
    /\ UNCHANGED <<contentScriptReadyPromises, asks, askButtonDisabled,
                   popupMessage, popupClosed, csLoaded, notPopup>>

\* The content script starts in another tab, and its contentScriptReady
\* message reaches the popup's listeners.
OtherTabAnnounces ==
    /\ ~popupClosed
    /\ sessions' =
         [s \in 1..Len(sessions) |-> ReadyListener(sessions[s], "other")]
    /\ NotASubmit
    /\ UNCHANGED <<contentScriptReadyPromises, asks, askButtonDisabled,
                   popupMessage, popupClosed, csLoaded, announcing, notPopup>>

\* The page of the active tab finishes loading with the content script.
TabLoads ==
    /\ ~csLoaded
    /\ csLoaded' = TRUE
    /\ announcing' = TRUE
    /\ NotASubmit
    /\ UNCHANGED <<contentScriptReadyPromises, sessions, asks,
                   askButtonDisabled, popupMessage, popupClosed, notPopup>>

\* The active tab is reloaded or navigates: its content script is gone.
TabNavigates ==
    /\ csLoaded
    /\ csLoaded' = FALSE
    /\ NotASubmit
    /\ UNCHANGED <<contentScriptReadyPromises, sessions, asks,
                   askButtonDisabled, popupMessage, popupClosed, announcing,
                   notPopup>>

\* The popup as DOMContentLoaded leaves it; the tabs are in any state.
InitPopup ==
    /\ contentScriptReadyPromises = [tab \in Tabs |-> 0]
    /\ sessions = <<>>
    /\ asks = <<>>
    /\ askButtonDisabled = FALSE
    /\ popupMessage = "none"
    /\ popupClosed = FALSE
    /\ csLoaded \in BOOLEAN
    /\ announcing = FALSE
    /\ lastSubmit = NoSubmit

\* askQuestion up to the sending of the showOverlay message, with the
\* handshake of ensureContentScriptLoaded.
NextHandshake ==
    \/ AskQuestion
    \/ AskQueried
    \/ AskReady
    \/ PingReturns
    \/ InjectReturns
    \/ HandshakeTimeout
    \/ Announce
    \/ OtherTabAnnounces
    \/ TabLoads
    \/ TabNavigates

\* The popup is not opened (for the specifications of the other parts).
IdlePopup ==
    /\ contentScriptReadyPromises = [tab \in Tabs |-> 0]
    /\ sessions = <<>>
    /\ asks = <<>>
    /\ askButtonDisabled = FALSE
    /\ popupMessage = "none"
    /\ popupClosed = FALSE
    /\ csLoaded = TRUE
    /\ announcing = FALSE
    /\ lastSubmit = NoSubmit

\* One run of askQuestion, from the valid submission to its end, with the
\* handshake and the delivery of the showOverlay message.
InitSubmit ==
    /\ contentScriptReadyPromises = [tab \in Tabs |-> 0]
    /\ sessions = <<>>
    /\ asks = <<NewAsk>>
    /\ askButtonDisabled = TRUE
    /\ popupMessage = "ensuring"
    /\ popupClosed = FALSE
    /\ csLoaded \in BOOLEAN
    /\ announcing = FALSE
    /\ lastSubmit = [NoSubmit EXCEPT !.n = Len(asks)]

NextSubmit ==
    \/ AskQueried
    \/ AskReady
    \/ AskSent
    \/ SendAttemptReturns
    \/ SendBackoffElapses
    \/ PingReturns
    \/ InjectReturns
    \/ HandshakeTimeout
    \/ Announce
    \/ OtherTabAnnounces
    \/ TabLoads
    \/ TabNavigates

\* sendMessageWithRetry called with any number of retries, on its own.
InitRetry ==
    /\ contentScriptReadyPromises = [tab \in Tabs |-> 0]
    /\ sessions = <<>>
    /\ \E tab \in {"active"}, retries \in 0..MaxRetries :
          asks = <<[pc |-> "sending", tabId |-> tab, promise |-> 0,
                    sm |-> SendMessageWithRetry(retries)]>>
    /\ askButtonDisabled = TRUE
    /\ popupMessage = "ready"
    /\ popupClosed = FALSE
    /\ csLoaded \in BOOLEAN
    /\ announcing = FALSE
    /\ lastSubmit = NoSubmit

NextRetry ==
    \/ SendAttemptReturns
    \/ SendBackoffElapses
    \/ AskSent
    \/ TabLoads
    \/ TabNavigates


(***************************************************************************)
(* The popup's listener for processManualTranscript (QTube_popup.js,       *)
(* lines 239-275).  The listener is an async function: it returns a        *)
(* promise at its first await (tabs.query), never the value true.  What    *)
(* the browser does with the channel then depends on the browser: one      *)
(* that honours a returned promise keeps the channel open until            *)
(* sendResponse is called, one that does not closes the channel as soon    *)
(* as the listener has returned, and a later sendResponse is lost.         *)
(*                                                                         *)
(* A request is a record: sender is the sender's tab ("none": no           *)
(* sender.tab); pc is "query" (tabs.query awaited), "calling"              *)
(* (callGeminiApi awaited) or "done"; channel is "open" or "closed";       *)
(* sent are the payloads given to sendResponse and delivered those that    *)
(* reached the sender; gateway counts the calls of callGeminiApi that      *)
(* ran and outcome is "none", "returned" or "threw" for the last one.      *)
(***************************************************************************)
Senders == {"active", "other", "none"}

ProxyFailure(error) ==
    [success |-> FALSE, fields |-> {"success", "error"}, error |-> error,
     answer |-> NoResult]

\* sendResponse({ success: true, answer: aiAnswer }), aiAnswer being what
\* callGeminiApi returned.
ProxySuccess(aiAnswer) ==
    [success |-> TRUE, fields |-> {"success", "answer"}, error |-> "",
     answer |-> aiAnswer]

\* QTube_popup.js defines no callGeminiApi: the name is bound only when
\* the popup's page loads a script that defines it.
GatewayBindings == {"notDefined", "defined"}

\* What the endpoint answers to the popup's call.
ProxyResponses ==
    {[ok |-> FALSE, valid |-> FALSE, lines |-> <<>>, nl |-> FALSE],
     [ok |-> TRUE, valid |-> TRUE, lines |-> <<2>>, nl |-> FALSE],
     [ok |-> TRUE, valid |-> TRUE, lines |-> <<1, 2>>, nl |-> TRUE]}

NewProxyRequest(sender, keepsOpen) ==
    [sender |-> sender, pc |-> "query",
     channel |-> IF keepsOpen THEN "open" ELSE "closed",
     sent |-> <<>>, delivered |-> <<>>, gateway |-> 0, outcome |-> "none"]

\* sendResponse(payload): the first response on an open channel is
\* delivered and closes it.
SendResponse(r, payload) ==
    IF r.channel = "open"
    THEN [r EXCEPT !.sent = Append(@, payload),
                   !.delivered = Append(@, payload),
                   !.channel = "closed"]
    ELSE [r EXCEPT !.sent = Append(@, payload)]

\* The test of lines 245-249 on the sender, currentTab being the active tab.
SenderRejected(sender) == sender = "none" \/ sender # "active"

\* A processManualTranscript message reaches the listener, which runs up
\* to its first await and returns its promise.
ProcessManualTranscriptMessage ==
    /\ ~popupClosed
    /\ Len(proxy) < MaxRequests
    /\ \E sender \in Senders, keepsOpen \in BOOLEAN :
          proxy' = Append(proxy, NewProxyRequest(sender, keepsOpen))
    /\ UNCHANGED notProxy

\* tabs.query returns: the sender is rejected with a failure payload, or
\* the prompt is composed and callGeminiApi called.
ProxyTabsQueried ==
    /\ ~popupClosed
    /\ \E r \in 1..Len(proxy), binding \in GatewayBindings :
          /\ proxy[r].pc = "query"
          /\ proxy' =
               [proxy EXCEPT ![r] =
                  IF SenderRejected(@.sender)
                  THEN [SendResponse(@, ProxyFailure(
                                          "Invalid tab context for AI processing."))
                          EXCEPT !.pc = "done"]
                  ELSE IF binding = "notDefined"
                  THEN [SendResponse(@, ProxyFailure(
                                          "callGeminiApi is not defined"))
                          EXCEPT !.pc = "done", !.outcome = "threw"]
                  ELSE [@ EXCEPT !.pc = "calling", !.gateway = @ + 1]]
    /\ UNCHANGED notProxy

\* callGeminiApi returns or throws: the response is sent.
ProxyGeminiReturns ==
    /\ ~popupClosed
    /\ \E r \in 1..Len(proxy), resp \in ProxyResponses :
          /\ proxy[r].pc = "calling"
          /\ LET aiAnswer == CallGeminiApi(resp)
             IN  proxy' =
                   [proxy EXCEPT ![r] =
                      IF aiAnswer.threw
                      THEN [SendResponse(@, ProxyFailure(aiAnswer.error))
                              EXCEPT !.pc = "done", !.outcome = "threw"]
                      ELSE [SendResponse(@, ProxySuccess(aiAnswer))
                              EXCEPT !.pc = "done", !.outcome = "returned"]]
    /\ UNCHANGED notProxy

InitProxy == proxy = <<>>

NextProxy ==
    \/ ProcessManualTranscriptMessage
    \/ ProxyTabsQueried
    \/ ProxyGeminiReturns

(***************************************************************************)
(* The specifications: each part of the program on its own, the other      *)
(* parts at rest.                                                          *)
(***************************************************************************)
InitSpecBridge == InitBridge /\ IdleGateway /\ InitOverlay /\ IdlePopup
    /\ InitProxy

SpecBridge == InitSpecBridge /\ [][NextBridge]_vars

NextGateway == GeminiCall

InitSpecGateway == InitGateway /\ IdleBridge /\ InitOverlay /\ IdlePopup
    /\ InitProxy

SpecGateway == InitSpecGateway /\ [][NextGateway]_vars

InitSpecOverlay == InitOverlay /\ IdleBridge /\ IdleGateway /\ IdlePopup
    /\ InitProxy

SpecOverlay == InitSpecOverlay /\ [][NextOverlay]_vars

InitSpecHandshake == InitPopup /\ IdleBridge /\ IdleGateway /\ InitOverlay
    /\ InitProxy

SpecHandshake == InitSpecHandshake /\ [][NextHandshake]_vars

InitSpecRetry == InitRetry /\ IdleBridge /\ IdleGateway /\ InitOverlay
    /\ InitProxy

SpecRetry == InitSpecRetry /\ [][NextRetry]_vars

\* The same, with what the scheduling gives: the browser settles every
\* tabs.sendMessage, every setTimeout delay ends, and the continuation of
\* askQuestion runs.
SpecRetryFair ==
    /\ SpecRetry
    /\ WF_vars(SendAttemptReturns)
    /\ WF_vars(SendBackoffElapses)
    /\ WF_vars(AskSent)

InitSpecSubmit == InitSubmit /\ IdleBridge /\ IdleGateway /\ InitOverlay
    /\ InitProxy

SpecSubmit == InitSpecSubmit /\ [][NextSubmit]_vars

\* The overlay's timestamp links with the Player Bridge they drive: the
\* page after its first showOverlay(question), which created the overlay
\* and injected the bridge while the player was still loading.
ShownOverlay ==
    /\ overlayElement = 1
    /\ currentQuestion \in Questions
    /\ dom = {1}
    /\ els = <<NewElement>>
    /\ requests = {}
    /\ lastOp = Operation("show", currentQuestion, 0, "none")

PollingBridge ==
    /\ ytplayer = PlayerObject(FALSE, FALSE, FALSE, FALSE, -1)
    /\ scriptMarker = TRUE
    /\ playerReady = FALSE
    /\ commandQueue = <<>>
    /\ pollScheduled = TRUE
    /\ listenerInstalled = TRUE
    /\ scriptRuns = 1
    /\ calls = <<>>
    /\ nEvents = 0
    /\ lastDrain = NoDrain
    /\ uncaught = 0

NextCitation ==
    \/ CloseClick
    \/ TypeTranscript
    \/ AnalyzeClick
    \/ AnalyzeCompletes
    \/ TimestampClick
    \/ PollTick
    \/ PlayerStarts

InitSpecCitation == ShownOverlay /\ PollingBridge /\ IdleGateway /\ IdlePopup
    /\ InitProxy

SpecCitation == InitSpecCitation /\ [][NextCitation]_vars

\* The overlays shown and closed on a page, with the Player Bridge they
\* inject and the seek events it receives.
NextInjection ==
    \/ ShowOverlay
    \/ CloseClick
    \/ SeekEvent
    \/ PollTick
    \/ PlayerStarts

InitSpecInjection == InitOverlay /\ IdleBridge /\ IdleGateway /\ IdlePopup
    /\ InitProxy

SpecInjection == InitSpecInjection /\ [][NextInjection]_vars

InitSpecProxy ==
    InitProxy /\ IdlePopup /\ IdleBridge /\ IdleGateway /\ InitOverlay

SpecProxy == InitSpecProxy /\ [][NextProxy]_vars

(***************************************************************************)
(* C1: the native seek and play operations are never invoked while the     *)
(* readiness gate is false: every invocation in the history was made       *)
(* with playerReady true.                                                  *)
(***************************************************************************)
C1_NoInvocationBeforeGate ==
    \A i \in 1..Len(calls) : calls[i].gate = TRUE

\* A seek was queued before readiness and executed after the gate opened,
\* and another was executed on direct receipt.
C1_Witness ==
    /\ lastDrain.done
    /\ Len(lastDrain.made) > 0
    /\ Len(calls) > Len(lastDrain.made)

(***************************************************************************)
(* C2: the seek events received while the gate is false are executed on    *)
(* the poll tick that opens the gate, and only there: the gate opens at    *)
(* most once; on that step the native seek is invoked once per queued      *)
(* time, in the order the events were received, and nothing else is        *)
(* invoked except the play that follows at once every seek that returned;  *)
(* with a native player that raises nothing, that is exactly k seek+play   *)
(* pairs; the queue is empty afterwards.                                   *)
(***************************************************************************)
MadeBy(before, after) == SubSeq(after, Len(before) + 1, Len(after))

SeekPlayPairs(made) ==
    \A j \in 1..Len(made) :
        /\ (made[j].op = "seek" /\ ~made[j].threw) =>
              /\ j < Len(made)
              /\ made[j + 1].op = "play"
              /\ made[j + 1].time = made[j].time
        /\ made[j].op = "play" =>
              /\ j > 1
              /\ made[j - 1].op = "seek"
              /\ ~made[j - 1].threw

C2_DrainStep ==
    /\ playerReady => playerReady'
    /\ (~playerReady /\ playerReady') =>
          LET made == MadeBy(calls, calls')
              seeks == SelectOp(made, "seek")
          IN  /\ Len(calls') >= Len(calls)
              /\ SubSeq(calls', 1, Len(calls)) = calls
              /\ commandQueue' = <<>>
              /\ [i \in 1..Len(seeks) |-> seeks[i].time] = commandQueue
              /\ SeekPlayPairs(made)
              /\ ((\A j \in 1..Len(made) : ~made[j].threw) =>
                     Len(made) = 2 * Len(commandQueue))

C2_DrainInOrderOnce == [][C2_DrainStep]_vars

\* Three events with different times were queued, and the drain made the
\* three seek+play pairs.
C2_Witness ==
    /\ lastDrain.done
    /\ Len(lastDrain.queue) = 3
    /\ lastDrain.queue[1] # lastDrain.queue[2]
    /\ Len(lastDrain.made) = 6
    /\ commandQueue = <<>>

(***************************************************************************)
(* C3: a promise of ensureContentScriptLoaded whose ping failed makes      *)
(* exactly one executeScript call, and is settled once: when the           *)
(* injection did not raise, it is resolved only by a contentScriptReady    *)
(* message whose sender is its own tab, and rejected only by its timer;    *)
(* once the timer has fired it is settled; and a settled promise never     *)
(* changes again.  (An injection that raises rejects the promise at once,  *)
(* before the timer.)                                                      *)
(***************************************************************************)
C3_SessionOk(s) ==
    s.probe = "failed" =>
       /\ s.injections = 1
       /\ (s.status = "pending") = (s.settledBy = "none")
       /\ s.injected # "failed" =>
             /\ s.status = "resolved" =>
                   /\ s.settledBy = "announce"
                   /\ s.readyFrom = s.tabId
             /\ s.status = "rejected" =>
                   /\ s.settledBy = "timeout"
                   /\ s.step = "fired"
       /\ s.step = "fired" => s.status # "pending"

C3_Step ==
    \A s \in 1..Len(sessions') :
       /\ C3_SessionOk(sessions'[s])
       /\ (s <= Len(sessions) /\ sessions[s].status # "pending") =>
             /\ sessions'[s].status = sessions[s].status
             /\ sessions'[s].settledBy = sessions[s].settledBy

C4_Live(ss, tab) ==
    {s \in 1..Len(ss) : ss[s].tabId = tab /\ ss[s].step # "fired"}

C4_Step ==
    /\ \A tab \in Tabs :
          /\ Cardinality(C4_Live(sessions', tab)) <= 1
          /\ C4_Live(sessions', tab) =
                {contentScriptReadyPromises'[tab]} \ {0}
    /\ \A a \in 1..Len(asks) :
          (asks[a].pc = "query" /\ asks'[a].pc = "awaitReady") =>
             LET p == contentScriptReadyPromises[asks'[a].tabId]
             IN  (p # 0 /\ sessions[p].status = "pending") =>
                    /\ asks'[a].promise = p
                    /\ sessions' = sessions
                    /\ contentScriptReadyPromises' =
                          contentScriptReadyPromises

C4_PendingSessionShared == [][C4_Step]_vars

\* Two runs of askQuestion await the same pending promise, the only one.
C4_Witness ==
    /\ Len(sessions) = 1
    /\ sessions[1].status = "pending"
    /\ \E a, b \in 1..Len(asks) :
          /\ a # b
          /\ asks[a].pc = "awaitReady"
          /\ asks[b].pc = "awaitReady"
          /\ asks[a].promise = 1
          /\ asks[b].promise = 1

(***************************************************************************)
(* C5: sendMessageWithRetry issues an attempt only after every earlier     *)
(* attempt failed and was followed by its delay; when the first N          *)
(* attempts (N <= retries) fail with a connection-class error and the      *)
(* next one succeeds, it has issued exactly N + 1 attempts and N delays    *)
(* and returns a response; and it does not give up on connection-class     *)
(* errors before retries + 1 attempts have failed.                         *)
(***************************************************************************)
C5_SendOk(sm) ==
    LET failures == sm.connFailures + sm.otherFailures
    IN  /\ sm.pc \in {"inflight", "returned"} =>
              /\ sm.attempts = failures + 1
              /\ sm.waits = failures
        /\ sm.pc \in {"backoff", "threw"} =>
              /\ sm.attempts = failures
              /\ sm.waits = failures - 1
        /\ (sm.pc = "returned" /\ sm.otherFailures = 0) =>
              /\ sm.connFailures <= sm.retries
              /\ sm.attempts = sm.connFailures + 1
              /\ sm.waits = sm.connFailures
              /\ sm.result \in Payloads
        /\ (sm.pc = "threw" /\ sm.otherFailures = 0) =>
              sm.connFailures = sm.retries + 1

C5_RetryUntilSuccess ==
    \A a \in 1..Len(asks) : C5_SendOk(asks[a].sm)

\* As many connection failures as there are retries, then a response.
C5_Witness ==
    \E a \in 1..Len(asks) :
       /\ asks[a].sm.pc = "returned"
       /\ asks[a].sm.retries = MaxRetries
       /\ asks[a].sm.connFailures = MaxRetries
       /\ asks[a].sm.otherFailures = 0
       /\ asks[a].sm.attempts = MaxRetries + 1
       /\ asks[a].sm.result = "ack"

(***************************************************************************)
(* C6, as the code has it: validation looks at the question with the       *)
(* white space at its ends removed.  A question whose trimmed text has     *)
(* 1 to 200 characters and is not the placeholder passes, and a run of     *)
(* askQuestion starts; one whose trimmed text is empty, longer than 200    *)
(* characters or the placeholder fails, and then no message is sent to     *)
(* any tab and no script is injected.                                      *)
(***************************************************************************)
C6_Submitted == lastSubmit'.n = lastSubmit.n + 1

\* The trimmed text of an input: its letters, or the placeholder.
C6_PassesTrimmed(input) ==
    /\ input.body = "text"
    /\ input.length >= 1
    /\ input.length <= QuestionLimit

C6_NothingSent ==
    UNCHANGED <<contentScriptReadyPromises, sessions, asks, csLoaded,
                announcing>>

C6_TrimmedStep ==
    C6_Submitted =>
       /\ (lastSubmit'.verdict = "valid") = C6_PassesTrimmed(lastSubmit'.input)
       /\ lastSubmit'.verdict = "valid" =>
             /\ asks' = Append(asks, NewAsk)
             /\ UNCHANGED <<contentScriptReadyPromises, sessions>>
       /\ lastSubmit'.verdict # "valid" => C6_NothingSent

C6_ValidationOnTrimmedQuestion == [][C6_TrimmedStep]_vars

\* C6 as stated: the length and the placeholder test are those of the
\* question as submitted.
C6_PassesAsSubmitted(input) ==
    LET value == QuestionValue(input)
    IN  /\ Len(value) >= 1
        /\ Len(value) <= QuestionLimit
        /\ value # defaultText

C6_SubmittedStep ==
    C6_Submitted =>
       /\ (lastSubmit'.verdict = "valid") =
             C6_PassesAsSubmitted(lastSubmit'.input)
       /\ lastSubmit'.verdict # "valid" => C6_NothingSent

C6_ValidationOnSubmittedQuestion == [][C6_SubmittedStep]_vars

\* With a run of askQuestion under way, a question of one space was
\* submitted and failed validation.
C6_Witness ==
    /\ lastSubmit.n = 2
    /\ lastSubmit.input.body = "text"
    /\ lastSubmit.input.length = 0
    /\ lastSubmit.input.lead = 1
    /\ lastSubmit.input.trail = 0
    /\ lastSubmit.verdict = "empty"
    /\ Len(asks) = 1
    /\ Len(sessions) = 1

(***************************************************************************)
(* C11: a processManualTranscript request whose sender is not the active   *)
(* tab, or has no sender tab, is answered with a failure payload           *)
(* {success: false, error}, and callGeminiApi is not called for it.        *)
(***************************************************************************)
C11_ForeignSenderGetsFailure ==
    \A r \in 1..Len(proxy) :
       (proxy[r].sender # "active" /\ proxy[r].pc = "done") =>
          /\ proxy[r].gateway = 0
          /\ Len(proxy[r].delivered) = 1
          /\ ~proxy[r].delivered[1].success
          /\ proxy[r].delivered[1].fields = {"success", "error"}

(***************************************************************************)
(* C12: for a processManualTranscript request of the active tab the        *)
(* channel stays open until callGeminiApi is over, and then exactly one    *)
(* response is delivered on it: {success: true, answer, timestamps} when   *)
(* callGeminiApi returned, {success: false, error} when it threw.          *)
(***************************************************************************)
C12_OneResponseAfterGateway ==
    \A r \in 1..Len(proxy) :
       proxy[r].sender = "active" =>
          /\ proxy[r].pc # "done" =>
                /\ proxy[r].channel = "open"
                /\ proxy[r].delivered = <<>>
          /\ proxy[r].pc = "done" =>
                /\ Len(proxy[r].delivered) = 1
                /\ proxy[r].outcome = "returned" =>
                      /\ proxy[r].delivered[1].success
                      /\ proxy[r].delivered[1].fields =
                            {"success", "answer", "timestamps"}
                /\ proxy[r].outcome = "threw" =>
                      /\ ~proxy[r].delivered[1].success
                      /\ proxy[r].delivered[1].fields = {"success", "error"}

(***************************************************************************)
(* C7: after extraction the displayed answer holds no citation: nothing    *)
(* in the cleaned answer matches the timestamp pattern, and for the        *)
(* input "[01:23] - Intro\nSome text\n[00:05]\n" the cleaned answer        *)
(* contains "Some text" and no bracket.                                    *)
(***************************************************************************)
ExampleResponse == [ok |-> TRUE, valid |-> TRUE, lines |-> <<1, 2, 3>>, nl |-> TRUE]

C7_CleanAnswerHasNoCitation ==
    (apiResult.done /\ ~apiResult.threw) =>
        /\ ~Exec(apiResult.answer, 1).found
        /\ apiResponse = ExampleResponse =>
              /\ IndexOf(apiResult.answer, LineSomeText) > 0
              /\ \A k \in 1..Len(apiResult.answer) :
                    apiResult.answer[k] \notin {"[", "]"}

(***************************************************************************)
(* C8: the citations are one per pattern match, in the order of the        *)
(* matches in the raw text, each with time = minutes*60 + seconds, the     *)
(* label padded to MM:SS and the trimmed description ("" when absent).     *)
(* Expected is written from the lines the text was built of; the spec's   *)
(* example yields 83 "01:23" "Intro", then 5 "00:05" "".                   *)
(***************************************************************************)
ExpectedOfLine(l) ==
    CASE l = 1 -> <<[time |-> 83, timestamp |-> <<"0", "1", ":", "2", "3">>,
                     text |-> <<"I", "n", "t", "r", "o">>]>>
      [] l = 3 -> <<[time |-> 5, timestamp |-> <<"0", "0", ":", "0", "5">>,
                     text |-> <<>>]>>
      [] l = 4 -> <<[time |-> 67, timestamp |-> <<"0", "1", ":", "0", "7">>,
                     text |-> <<"a">>]>>
      [] OTHER -> <<>>

RECURSIVE Expected(_)
Expected(ls) ==
    IF ls = <<>> THEN <<>> ELSE ExpectedOfLine(Head(ls)) \o Expected(Tail(ls))

C8_CitationsInTextOrder ==
    (apiResult.done /\ ~apiResult.threw) =>
        apiResult.timestamps = Expected(apiResponse.lines)

\* The spec's example was parsed: times 83 then 5 (not sorted by time).
C8_Witness ==
    /\ apiResult.done
    /\ TextOf(apiResponse) = <<"[", "0", "1", ":", "2", "3", "]", " ", "-", " ", "I", "n", "t", "r", "o", NL, "S", "o", "m", "e", " ", "t", "e", "x", "t", NL, "[", "0", "0", ":", "0", "5", "]", NL>>
    /\ Len(apiResult.timestamps) = 2
    /\ apiResult.timestamps[1].time = 83
    /\ apiResult.timestamps[2].time = 5
    /\ apiResult.timestamps[2].text = <<>>

(***************************************************************************)
(* C9: hide() is idempotent.  From every reachable overlay state, hiding   *)
(* twice leaves what hiding once leaves: no overlay element in the page,   *)
(* overlayElement null and the stored question cleared; with no overlay    *)
(* present hide() changes nothing; and every hideOverlay() that ran left   *)
(* that state.  hideOverlay has no path that raises.                       *)
(***************************************************************************)
C9_HideIdempotent ==
    LET cur == OverlayState(overlayElement, currentQuestion, dom)
        once == HideOverlay(cur)
        twice == HideOverlay(once)
    IN  /\ twice = once
        /\ once = OverlayState(0, "null", {})
        /\ overlayElement = 0 => once = cur
        /\ lastOp.op = "hide" => cur = OverlayState(0, "null", {})

\* hideOverlay() ran twice in a row after an overlay had been shown: the
\* second run found no overlay.
C9_Witness ==
    /\ lastOp.op = "hide"
    /\ lastOp.prev = "hide"
    /\ lastOp.had = 0
    /\ Len(els) > 0
    /\ dom = {}

(***************************************************************************)
(* C10: at most one overlay exists in the page; a show(q) that found an    *)
(* overlay removed it from the page, and after show(q) the page holds      *)
(* the new overlay only, the stored question is q and the new overlay's    *)
(* response panel is empty.                                                *)
(***************************************************************************)
C10_OneOverlay ==
    /\ Cardinality(dom) <= 1
    /\ lastOp.op = "show" =>
          /\ overlayElement # 0
          /\ overlayElement # lastOp.had
          /\ dom = {overlayElement}
          /\ currentQuestion = lastOp.q
          /\ els[overlayElement].panel = "empty"

\* show(q) replaced an overlay that showed an answer for another question.
C10_Witness ==
    /\ lastOp.op = "show"
    /\ lastOp.had # 0
    /\ els[lastOp.had].panel = "answered"
    /\ dom = {overlayElement}
    /\ currentQuestion = "q2"

(***************************************************************************)
(* C13: when the timer of a promise fires while the promise is pending     *)
(* (no contentScriptReady message resolved it), the promise is rejected    *)
(* and the tab's entry is deleted from the map; and the next call of       *)
(* ensureContentScriptLoaded for that tab, which finds no entry, creates   *)
(* a new promise, stored in the map, that starts with the ping.            *)
(***************************************************************************)
C13_Step ==
    /\ \A s \in 1..Len(sessions) :
          (/\ sessions[s].status = "pending"
           /\ sessions[s].step = "armed"
           /\ sessions'[s].step = "fired") =>
             /\ sessions'[s].status = "rejected"
             /\ sessions'[s].settledBy = "timeout"
             /\ ~sessions'[s].listening
             /\ contentScriptReadyPromises'[sessions[s].tabId] = 0
    /\ \A a \in 1..Len(asks) :
          (/\ asks[a].pc = "query"
           /\ asks'[a].pc = "awaitReady"
           /\ contentScriptReadyPromises[asks'[a].tabId] = 0
           /\ \E s \in 1..Len(sessions) :
                 /\ sessions[s].tabId = asks'[a].tabId
                 /\ sessions[s].settledBy = "timeout") =>
             /\ Len(sessions') = Len(sessions) + 1
             /\ asks'[a].promise = Len(sessions')
             /\ contentScriptReadyPromises'[asks'[a].tabId] = Len(sessions')
             /\ sessions'[Len(sessions')] = NewSession(asks'[a].tabId)

C13_TimeoutDiscardsSession == [][C13_Step]_vars

\* The first promise of the tab was rejected by its timer, and a run of
\* askQuestion awaits the second one, which is in the map.
C13_Witness ==
    /\ Len(sessions) = 2
    /\ sessions[1].settledBy = "timeout"
    /\ sessions[2].tabId = sessions[1].tabId
    /\ contentScriptReadyPromises[sessions[2].tabId] = 2
    /\ \E a \in 1..Len(asks) :
          asks[a].pc = "awaitReady" /\ asks[a].promise = 2

(***************************************************************************)
(* C14: one call of sendMessageWithRetry issues at most retries + 1        *)
(* attempts; when retries + 1 attempts have failed with a connection-      *)
(* class error the call has thrown; a call that has returned or thrown     *)
(* does nothing more; and, every attempt being answered and every delay    *)
(* ending, the call returns or throws.                                     *)
(***************************************************************************)
C14_Over(sm) == sm.pc \in {"returned", "threw"}

C14_Bounded ==
    \A a \in 1..Len(asks) :
       /\ asks[a].sm.attempts <= asks[a].sm.retries + 1
       /\ asks[a].sm.connFailures = asks[a].sm.retries + 1 =>
             /\ asks[a].sm.pc = "threw"
             /\ asks[a].sm.attempts = asks[a].sm.retries + 1

C14_Step ==
    \A a \in 1..Len(asks) :
       C14_Over(asks[a].sm) => asks'[a].sm = asks[a].sm

C14_BoundedAndTerminates ==
    /\ []C14_Bounded
    /\ [][C14_Step]_vars
    /\ <>(\A a \in 1..Len(asks) : C14_Over(asks[a].sm))

\* Every attempt failed with a connection-class error, and the call threw.
C14_Witness ==
    \E a \in 1..Len(asks) :
       /\ asks[a].sm.retries = MaxRetries
       /\ asks[a].sm.connFailures = MaxRetries + 1
       /\ asks[a].sm.attempts = MaxRetries + 1
       /\ asks[a].sm.pc = "threw"
       /\ asks[a].pc = "failed"

(***************************************************************************)
(* C15: the popup is closed only by a run of askQuestion whose             *)
(* sendMessageWithRetry returned (the showOverlay message was              *)
(* delivered); a run goes on to the delivery only with a resolved          *)
(* promise; and when the promise was rejected or sendMessageWithRetry      *)
(* threw, the run ends with the popup open, the error message shown and    *)
(* the ask button enabled.                                                 *)
(***************************************************************************)
C15_Step ==
    /\ (~popupClosed /\ popupClosed') =>
          \E a \in 1..Len(asks) :
             /\ asks[a].pc = "sending"
             /\ asks[a].sm.pc = "returned"
             /\ asks'[a].pc = "done"
    /\ \A a \in 1..Len(asks) :
          /\ (asks[a].pc = "awaitReady" /\ asks'[a].pc # "awaitReady") =>
                IF sessions[asks[a].promise].status = "resolved"
                THEN asks'[a].pc = "sending"
                ELSE asks'[a].pc = "failed"
          /\ (asks[a].pc = "sending" /\ asks'[a].pc # "sending") =>
                IF asks[a].sm.pc = "returned"
                THEN asks'[a].pc = "done" /\ popupClosed'
                ELSE asks'[a].pc = "failed"
          /\ (asks[a].pc # "failed" /\ asks'[a].pc = "failed") =>
                /\ ~popupClosed'
                /\ popupMessage' = "error"
                /\ ~askButtonDisabled'

C15_ClosesOnlyOnDelivery == [][C15_Step]_vars

\* The handshake succeeded, every attempt to deliver failed, and the popup
\* is open with the error shown and the button enabled.
C15_Witness ==
    \E a \in 1..Len(asks) :
       /\ asks[a].pc = "failed"
       /\ asks[a].sm.pc = "threw"
       /\ sessions[asks[a].promise].status = "resolved"
       /\ ~popupClosed
       /\ popupMessage = "error"
       /\ ~askButtonDisabled

(***************************************************************************)
(* C16: an exception of the native seekTo or playVideo is caught by        *)
(* processSeekCommand.  On the step where a native call raises, nothing    *)
(* leaves the bridge uncaught, the poll stays scheduled and the listener   *)
(* installed, and a drain still invokes seekTo once for every queued       *)
(* time, in order, and empties the queue; after a native call has          *)
(* raised, the poll is scheduled, the listener is installed, and a seek    *)
(* event received with a ready player still invokes seekTo.                *)
(***************************************************************************)
NativeThrew(made) == \E j \in 1..Len(made) : made[j].threw

C16_Step ==
    LET made == MadeBy(calls, calls')
        seeks == SelectOp(made, "seek")
    IN  /\ NativeThrew(made) =>
              /\ uncaught' = uncaught
              /\ pollScheduled'
              /\ listenerInstalled'
              /\ playerReady'
              /\ (~playerReady =>
                     /\ [i \in 1..Len(seeks) |-> seeks[i].time] = commandQueue
                     /\ commandQueue' = <<>>)
        /\ (/\ NativeThrew(calls)
            /\ nEvents' = nEvents + 1
            /\ IsYouTubePlayerAPIReady(ytplayer) = "true") =>
              /\ Len(made) >= 1
              /\ made[1].op = "seek"
              /\ made[1].time \in Times
              /\ uncaught' = uncaught

C16_AfterThrow ==
    NativeThrew(calls) => pollScheduled /\ listenerInstalled /\ playerReady

C16_NativeThrowCaught == []C16_AfterThrow /\ [][C16_Step]_vars

\* seekTo raised on the first of two queued commands, the second was
\* executed in the same drain, and a later event was executed too.
C16_Witness ==
    /\ lastDrain.done
    /\ Len(lastDrain.queue) = 2
    /\ lastDrain.outcomes[1] = "seekThrows"
    /\ lastDrain.made[1].threw
    /\ Len(lastDrain.made) = 3
    /\ lastDrain.made[2].time = lastDrain.queue[2]
    /\ Len(calls) = Len(lastDrain.made) + 2
    /\ pollScheduled
    /\ listenerInstalled
    /\ uncaught = 0

(***************************************************************************)
(* C17: once the bridge script has been injected, in every state, a next   *)
(* poll is scheduled and the qtube_seek_video listener is installed, and   *)
(* a player that is undefined, null, or an object that fails the           *)
(* readiness predicate has not opened the gate unless a drain was made.    *)
(***************************************************************************)
C17_PollsForever ==
    scriptMarker =>
        /\ pollScheduled
        /\ listenerInstalled
        /\ (playerReady => lastDrain.done)

(***************************************************************************)
(* C18: a click on a timestamp link of the answered overlay dispatches     *)
(* one qtube_seek_video event whose time is the time of one of the         *)
(* overlay's citations (the bridge queues it, or invokes seekTo with it),  *)
(* and leaves the overlay as it is: attached, with its panel and its       *)
(* question.  The native player is invoked by the bridge only: on an       *)
(* event received with the gate open, or on the drain.                     *)
(***************************************************************************)
C18_Step ==
    LET made == MadeBy(calls, calls')
    IN  /\ (nEvents' # nEvents) =>
              /\ nEvents' = nEvents + 1
              /\ overlayElement \in dom
              /\ els[overlayElement].panel = "answered"
              /\ overlayElement' = overlayElement
              /\ dom' = dom
              /\ els' = els
              /\ currentQuestion' = currentQuestion
              /\ requests' = requests
              /\ \E i \in 1..Len(els[overlayElement].links) :
                    LET time == els[overlayElement].links[i]
                    IN  IF playerReady
                        THEN /\ commandQueue' = commandQueue
                             /\ Len(made) \in {1, 2}
                             /\ made[1].op = "seek"
                             /\ \A j \in 1..Len(made) : made[j].time = time
                        ELSE /\ commandQueue' = Append(commandQueue, time)
                             /\ calls' = calls
        /\ (calls' # calls) =>
              /\ listenerInstalled
              /\ \A j \in 1..Len(made) : made[j].gate
              /\ \/ playerReady /\ nEvents' = nEvents + 1
                 \/ ~playerReady /\ playerReady' /\ nEvents' = nEvents

C18_ClickDispatchesOneSeek == [][C18_Step]_vars

\* The link of 01:23 was clicked, then the link of 00:05, both were
\* executed by the bridge, and the overlay is still there with its answer.
C18_Witness ==
    /\ lastOp.op = "seek"
    /\ nEvents = 2
    /\ Len(calls) = 4
    /\ calls[1].time = 83
    /\ calls[3].time = 5
    /\ overlayElement \in dom
    /\ els[overlayElement].panel = "answered"
    /\ els[overlayElement].links = <<83, 5>>

(***************************************************************************)
(* C19: processManualTranscript with a textarea that is empty once         *)
(* trimmed stops at its alert: no callGeminiApi run is started, the        *)
(* analyze button stays enabled, and the overlay, its panel and            *)
(* currentQuestion are unchanged; a callGeminiApi run is started only      *)
(* with a transcript that is not empty once trimmed.                       *)
(***************************************************************************)
C19_Step ==
    /\ (lastOp'.op = "alert" /\ lastOp' # lastOp) =>
          LET input == ElementInPage(dom)
          IN  /\ Trim(els[input].transcript) = <<>>
              /\ requests' = requests
              /\ els' = els
              /\ ~els'[input].btnDisabled
              /\ overlayElement' = overlayElement
              /\ dom' = dom
              /\ currentQuestion' = currentQuestion
              /\ apiResult' = apiResult
    /\ (requests' \ requests # {}) =>
          /\ Trim(els[ElementInPage(dom)].transcript) # <<>>
          /\ lastOp'.op = "analyze"

C19_EmptyTranscriptAborts == [][C19_Step]_vars

\* The analyze button was clicked on a textarea of white space only.
C19_Witness ==
    /\ lastOp.op = "alert"
    /\ overlayElement \in dom
    /\ els[overlayElement].transcript = <<" ", NL>>
    /\ ~els[overlayElement].btnDisabled
    /\ els[overlayElement].panel = "empty"
    /\ requests = {}
    /\ currentQuestion \in Questions

(***************************************************************************)
(* C20: a qtube_seek_video event received by the listener while            *)
(* playerReady is true makes the bridge invoke seekTo with the event's     *)
(* time, and playVideo after it when seekTo returned, on that step and     *)
(* without queueing; an event received while playerReady is false is       *)
(* appended to the tail of commandQueue and nothing is invoked.            *)
(***************************************************************************)
C20_Step ==
    (nEvents' = nEvents + 1 /\ listenerInstalled) =>
        LET made == MadeBy(calls, calls')
        IN  IF playerReady
            THEN /\ commandQueue' = commandQueue
                 /\ \E seconds \in Times :
                       \/ made = <<Invocation("seek", seconds, TRUE, TRUE)>>
                       \/ /\ Len(made) = 2
                          /\ made[1] = Invocation("seek", seconds, TRUE, FALSE)
                          /\ made[2].op = "play"
                          /\ made[2].time = seconds
            ELSE /\ calls' = calls
                 /\ \E seconds \in Times :
                       commandQueue' = Append(commandQueue, seconds)

C20_EventExecutedOrQueued == [][C20_Step]_vars

(***************************************************************************)
(* C21: a promise whose executeScript raised is rejected on that step,     *)
(* and a call of ensureContentScriptLoaded never returns a promise that    *)
(* was rejected by a failed injection: the call after the failure creates  *)
(* a new promise that starts with the ping.                                *)
(***************************************************************************)
C21_Step ==
    /\ \A s \in 1..Len(sessions) :
          (sessions[s].injected # "failed" /\ sessions'[s].injected = "failed") =>
             sessions'[s].status \in {"rejected", "resolved"}
    /\ \A a \in 1..Len(asks) :
          (asks[a].pc = "query" /\ asks'[a].pc = "awaitReady") =>
             sessions'[asks'[a].promise].settledBy # "injectError"

C21_RetryAfterFailedInjection == [][C21_Step]_vars

(***************************************************************************)
(* C22: when an attempt of sendMessageWithRetry ends, the delay and        *)
(* another attempt follow only if the attempt failed with a                *)
(* connection-class error, whether reported through lastError or thrown;   *)
(* an attempt that failed with any other error ends the call with an       *)
(* error on that step.                                                     *)
(***************************************************************************)
C22_Step ==
    \A a \in 1..Len(asks) :
       (asks[a].sm.pc = "inflight" /\ asks'[a].sm.pc # "inflight") =>
          /\ asks'[a].sm.pc = "backoff" =>
                asks'[a].sm.last \in ConnectionClass
          /\ asks'[a].sm.last \in {"lastErrorOther", "throwOther"} =>
                asks'[a].sm.pc = "threw"

C22_RetryOnlyOnConnectionFailure == [][C22_Step]_vars

(***************************************************************************)
(* C23: a promise of ensureContentScriptLoaded whose ping was answered is  *)
(* resolved on the step the ping returns, its listener removed, and        *)
(* executeScript is never called for it, then or later.                    *)
(***************************************************************************)
C23_Answered(s) ==
    s.probe = "answered" =>
        /\ s.status = "resolved"
        /\ ~s.listening
        /\ s.injections = 0
        /\ s.injected = "none"
        /\ s.step \in {"armed", "fired"}

C23_Step ==
    \A s \in 1..Len(sessions) :
       (sessions[s].step = "ping" /\ sessions'[s].step # "ping" /\ csLoaded) =>
          /\ sessions'[s].probe = "answered"
          /\ sessions'[s].status = "resolved"

C23_AnsweredProbeNeverInjects ==
    /\ [](\A s \in 1..Len(sessions) : C23_Answered(sessions[s]))
    /\ [][C23_Step]_vars

\* The ping was answered, the promise resolved by it, the timer has fired,
\* and the run that awaited the promise went on.
C23_Witness ==
    \E a \in 1..Len(asks) :
       /\ asks[a].pc = "sending"
       /\ sessions[asks[a].promise].probe = "answered"
       /\ sessions[asks[a].promise].settledBy = "pong"
       /\ sessions[asks[a].promise].step = "fired"
       /\ sessions[asks[a].promise].injections = 0

(***************************************************************************)
(* C24: a run of askQuestion calls tabs.sendMessage with the showOverlay   *)
(* message only once the promise of ensureContentScriptLoaded it awaited   *)
(* is resolved, and for the tab of that promise; a run whose promise was   *)
(* rejected makes no attempt, then or later.                               *)
(***************************************************************************)
C24_RunOk(a) ==
    /\ a.sm.attempts > 0 =>
          /\ a.promise # 0
          /\ sessions[a.promise].status = "resolved"
          /\ sessions[a.promise].tabId = a.tabId
    /\ (a.promise # 0 /\ sessions[a.promise].status # "resolved") =>
          /\ a.sm = IdleSend
          /\ a.pc \in {"awaitReady", "failed"}

C24_Step ==
    \A a \in 1..Len(asks) :
       (asks[a].sm.attempts = 0 /\ asks'[a].sm.attempts > 0) =>
          /\ asks[a].pc = "awaitReady"
          /\ sessions[asks[a].promise].status = "resolved"

C24_ShowOverlayAfterReady ==
    /\ [](\A a \in 1..Len(asks) : C24_RunOk(asks[a]))
    /\ [][C24_Step]_vars

\* One run found its promise rejected and sent nothing; a later run's
\* promise was resolved by the injected script's announcement, and the
\* run sent the showOverlay message after it.
C24_Witness ==
    \E a, b \in 1..Len(asks) :
       /\ asks[a].pc = "failed"
       /\ sessions[asks[a].promise].status = "rejected"
       /\ asks[a].sm = IdleSend
       /\ asks[b].pc = "sending"
       /\ asks[b].sm.attempts = 1
       /\ sessions[asks[b].promise].settledBy = "announce"
       /\ sessions[asks[b].promise].injected = "ok"

(***************************************************************************)
(* C25: playerReady, once true, stays true; it becomes true only on a run  *)
(* of the polling function (no seek event on that step, the player         *)
(* untouched, the poll armed again) that finds window.ytplayer an object   *)
(* with seekTo, playVideo and getPlayerState, its loaded flag set, and     *)
(* a state other than -1 and 5.                                            *)
(***************************************************************************)
C25_Step ==
    /\ playerReady => playerReady'
    /\ (~playerReady /\ playerReady') =>
          /\ ytplayer.exists = "object"
          /\ ytplayer.seekTo
          /\ ytplayer.playVideo
          /\ ytplayer.getPlayerState
          /\ ytplayer.loaded
          /\ ytplayer.state \notin {-1, 5}
          /\ ytplayer' = ytplayer
          /\ nEvents' = nEvents
          /\ pollScheduled'
          /\ lastDrain'.done

C25_GateOpensOnReadyPlayerOnly == [][C25_Step]_vars

\* An event was queued while the gate was closed, and a run of the
\* polling function that found the player active opened the gate.
C25_Witness ==
    /\ playerReady
    /\ lastDrain.done
    /\ Len(lastDrain.queue) = 1
    /\ ytplayer = PlayerActive
    /\ nEvents = 1
    /\ uncaught = 0

(***************************************************************************)
(* C26: processManualTranscript with a transcript that is not empty        *)
(* disables the analyze button, shows the loading state in the panel and   *)
(* starts one run of callGeminiApi; the run completes once and starts no   *)
(* other; and when the overlay of the submission is still the page's       *)
(* overlay at the completion, its panel is answered or errored after it,   *)
(* not loading.                                                            *)
(***************************************************************************)
C26_Step ==
    /\ (requests' \ requests # {}) =>
          /\ Cardinality(requests' \ requests) = 1
          /\ requests \subseteq requests'
          /\ \A r \in requests' \ requests :
                /\ r.btn = overlayElement
                /\ r.btn \in dom
                /\ r.question = currentQuestion
                /\ Trim(els[r.btn].transcript) # <<>>
                /\ els'[r.btn].btnDisabled
                /\ els'[r.btn].panel = "loading"
                /\ \A q \in requests : q.btn # r.btn
    /\ (requests \ requests' # {}) =>
          /\ Cardinality(requests \ requests') = 1
          /\ requests' \subseteq requests
          /\ \A r \in requests \ requests' :
                (r.btn \in dom /\ r.btn = overlayElement) =>
                   /\ els'[r.btn].panel \in {"answered", "errored"}
                   /\ ~els'[r.btn].btnDisabled

C26_OneCallThenAnswerOrError == [][C26_Step]_vars

\* The call failed and the overlay of the submission shows the error.
C26_Witness ==
    /\ lastOp.op = "completed"
    /\ overlayElement \in dom
    /\ els[overlayElement].panel = "errored"
    /\ Trim(els[overlayElement].transcript) # <<>>
    /\ lastOp.q = currentQuestion
    /\ requests = {}
    /\ Len(els) = 1

(***************************************************************************)
(* C27: when callGeminiApi completes while overlayElement is null (the     *)
(* overlay was closed and none was shown since), the rest of               *)
(* processManualTranscript leaves overlayElement null, the page without    *)
(* overlay, currentQuestion null, and the panel, the links and the         *)
(* transcript section of every element as they were.                       *)
(***************************************************************************)
C27_Step ==
    (requests \ requests' # {} /\ overlayElement = 0) =>
        /\ requests' \subseteq requests
        /\ overlayElement' = 0
        /\ dom = {}
        /\ dom' = {}
        /\ currentQuestion = "null"
        /\ currentQuestion' = "null"
        /\ Len(els') = Len(els)
        /\ \A e \in 1..Len(els) :
              /\ els'[e].panel = els[e].panel
              /\ els'[e].links = els[e].links
              /\ els'[e].inputHidden = els[e].inputHidden
              /\ els'[e].transcript = els[e].transcript

C27_CompletionAfterCloseIsNoOp == [][C27_Step]_vars

\* The overlay was closed while its request was outstanding, and the
\* request has completed.
C27_Witness ==
    /\ lastOp.op = "completed"
    /\ lastOp.q \in Questions
    /\ lastOp.had = 0
    /\ overlayElement = 0
    /\ dom = {}
    /\ currentQuestion = "null"
    /\ requests = {}
    /\ Len(els) = 1
    /\ els[1].panel = "loading"

(***************************************************************************)
(* C28: however many times showOverlay runs on a page, the body of the     *)
(* injected script runs at most once (once exactly when the marker         *)
(* element exists): a showOverlay that finds the marker leaves the bridge  *)
(* as it is; and the bridge makes at most one seekTo and one playVideo     *)
(* for each qtube_seek_video event dispatched.                             *)
(***************************************************************************)
C28_Once ==
    /\ scriptRuns = (IF scriptMarker THEN 1 ELSE 0)
    /\ Len(SelectOp(calls, "seek")) + Len(commandQueue) <= nEvents
    /\ Len(SelectOp(calls, "play")) <= Len(SelectOp(calls, "seek"))

C28_Step ==
    /\ (Len(els') > Len(els) /\ scriptMarker) =>
          UNCHANGED <<scriptMarker, scriptRuns, playerReady, commandQueue,
                      pollScheduled, listenerInstalled, calls>>
    /\ (nEvents' = nEvents + 1) =>
          LET made == MadeBy(calls, calls')
          IN  /\ Len(SelectOp(made, "seek")) <= 1
              /\ Len(SelectOp(made, "play")) <= 1

C28_BridgeInjectedOnce == []C28_Once /\ [][C28_Step]_vars

\* Two overlays were shown, the script ran once, and every event was
\* executed once.
C28_Witness ==
    /\ Len(els) = 2
    /\ scriptMarker
    /\ scriptRuns = 1
    /\ listenerInstalled
    /\ nEvents = 2
    /\ Len(calls) = 4
    /\ lastOp.op = "show"
    /\ lastOp.prev = "show"

(***************************************************************************)
(* C29: a run of askQuestion that finds the active tab's URL not to be a   *)
(* watch page ends there: it shows the message, enables the ask button     *)
(* and leaves the popup open; it creates no promise and no map entry,      *)
(* sends no ping, injects nothing and never sends the showOverlay          *)
(* message.                                                                *)
(***************************************************************************)
C29_Aborted(a) ==
    a.pc = "aborted" =>
        /\ a.promise = 0
        /\ a.tabId = NoTab
        /\ a.sm = IdleSend

C29_Step ==
    \A a \in 1..Len(asks) :
       /\ (asks[a].pc = "query" /\ asks'[a].pc = "aborted") =>
             /\ popupMessage' = "notYouTube"
             /\ ~askButtonDisabled'
             /\ ~popupClosed'
             /\ UNCHANGED <<contentScriptReadyPromises, sessions, csLoaded,
                            announcing>>
       /\ asks[a].pc = "aborted" => asks'[a] = asks[a]

C29_NotWatchPageAborts ==
    /\ [](\A a \in 1..Len(asks) : C29_Aborted(asks[a]))
    /\ [][C29_Step]_vars

\* The only run made was aborted: nothing was created, and the button is
\* enabled.
C29_Witness ==
    /\ Len(asks) = 1
    /\ asks[1].pc = "aborted"
    /\ sessions = <<>>
    /\ contentScriptReadyPromises = [tab \in Tabs |-> 0]
    /\ popupMessage = "notYouTube"
    /\ ~askButtonDisabled
    /\ ~popupClosed

(***************************************************************************)
(* C30: when callGeminiApi completes for a submission made in an overlay   *)
(* that is no longer the page's overlay (showOverlay replaced it), the     *)
(* panel, the links and the transcript section of the new overlay are      *)
(* left as they were.                                                      *)
(***************************************************************************)
C30_Step ==
    \A r \in requests \ requests' :
       (overlayElement # 0 /\ r.btn # overlayElement) =>
          /\ els'[overlayElement].panel = els[overlayElement].panel
          /\ els'[overlayElement].links = els[overlayElement].links
          /\ els'[overlayElement].inputHidden = els[overlayElement].inputHidden

C30_AnswerStaysInItsOverlay == [][C30_Step]_vars

(***************************************************************************)
(* C32: in every state of the Player Bridge where playerReady is true,     *)
(* commandQueue is empty: the drain that opens the gate shifts every       *)
(* queued time, and the listener pushes none while the gate is open.       *)
(***************************************************************************)
C32_QueueEmptyWhenReady ==
    playerReady => commandQueue = <<>>

\* Two events were queued and drained, a third was received with the gate
\* open, and the queue is empty.
C32_Witness ==
    /\ playerReady
    /\ lastDrain.done
    /\ Len(lastDrain.queue) = 2
    /\ nEvents = 3
    /\ listenerInstalled
    /\ commandQueue = <<>>

(***************************************************************************)
(* C31: when the active tab's contentScriptReady message reaches the       *)
(* popup, every promise of ensureContentScriptLoaded for that tab that is  *)
(* pending and whose timer has not fired (the ping is awaited,             *)
(* executeScript is awaited, or the timer is armed) is resolved by it:     *)
(* readyListener is added before the ping is sent (line 118) and stays     *)
(* until the promise is settled.                                           *)
(***************************************************************************)
C31_Step ==
    (announcing /\ ~announcing') =>
       \A s \in 1..Len(sessions) :
          (/\ sessions[s].tabId = "active"
           /\ sessions[s].status = "pending"
           /\ sessions[s].step \in {"ping", "inject", "armed"})
             => /\ sessions'[s].status = "resolved"
                /\ sessions'[s].settledBy = "announce"
                /\ sessions'[s].readyFrom = "active"

C31_AnnouncementNeverMissed == [][C31_Step]_vars

\* The announcement resolved a promise whose ping had not returned yet.
C31_Witness ==
    \E s \in 1..Len(sessions) :
       /\ sessions[s].tabId = "active"
       /\ sessions[s].status = "resolved"
       /\ sessions[s].settledBy = "announce"
       /\ sessions[s].step = "ping"
       /\ sessions[s].probe = "sent"

====
